---- MODULE Spec2Model ----
(***************************************************************************)
(* Model of the progression engine of the Pokemon Blue autobot             *)
(* (navigation.py: ProgressionManager) driven by the control loop of       *)
(* bot.py (PokemonBot.run), with the state snapshot of memory.py           *)
(* (GameState) as the environment; of the state file through load_state    *)
(* and save_state; of the multi-step primitives of Navigator; and of the   *)
(* decision policy of battle.py (BattleAI).                                *)
(*                                                                         *)
(* Positions in STEP_ORDER are 1-based here (Python's are 0-based).        *)
(***************************************************************************)
EXTENDS Integers, Sequences, FiniteSets, TLC

\* ------------------------------------------------------------------------
\* Bounds of the model (not program constants)
\* ------------------------------------------------------------------------
MaxCoord == 1   \* player_x ranges over 0..MaxCoord
MaxEvents == 1  \* environment events in one behaviour: a badge earned, a
                \* handler that raises, a failed write, a restart
MaxNavSteps == 6  \* largest max_steps passed to a Navigator primitive
MaxPP == 1      \* the PP a non-exhausted move slot has left
MaxHP == 6      \* player HP and max HP range over 0..MaxHP
MaxCalls == 8   \* run_next_step calls made on one ProgressionManager

\* ------------------------------------------------------------------------
\* Program constants
\* ------------------------------------------------------------------------
STEP_ORDER ==
  << "pallet_start", "route1_to_viridian", "viridian_parcel",
     "viridian_forest", "pewter_brock", "mt_moon", "cerulean_misty",
     "nugget_bridge_bill", "vermilion_ltsurge", "rock_tunnel",
     "celadon_erika", "pokemon_tower", "saffron_sabrina", "fuchsia_koga",
     "cinnabar_blaine", "viridian_giovanni", "elite_four", "game_complete" >>

PALLET_TOWN == 0
VIRIDIAN_CITY == 1

MAX_STUCK_TRIES == 5
ESCAPE_STEPS == 3
DESCENT_STEPS == 15
SWEEP_STEPS == 10

STALL_WINDOW == 3
STALL_MAX_RETRIES == 5
BADGE_BITS == 8

Steps == { STEP_ORDER[i] : i \in 1..Len(STEP_ORDER) }

InSeq(x, s) == \E i \in 1..Len(s) : s[i] = x

\* STEP_ORDER.index(s), 1-based; 0 when s is not a milestone
StepIndex(s) ==
  IF s \in Steps THEN CHOOSE i \in 1..Len(STEP_ORDER) : STEP_ORDER[i] = s
  ELSE 0

\* bin(badges).count("1")
RECURSIVE BadgeCount(_)
BadgeCount(b) == IF b = 0 THEN 0 ELSE (b % 2) + BadgeCount(b \div 2)

\* step_ranges of get_current_step: badge count -> whitelist, in listed order
step_ranges(c) ==
  CASE c = 0 -> << "pallet_start", "route1_to_viridian", "viridian_parcel",
                   "viridian_forest", "pewter_brock" >>
    [] c = 1 -> << "mt_moon", "cerulean_misty" >>
    [] c = 2 -> << "nugget_bridge_bill", "vermilion_ltsurge" >>
    [] c = 3 -> << "rock_tunnel", "celadon_erika" >>
    [] c = 4 -> << "pokemon_tower", "saffron_sabrina", "celadon_erika" >>
    [] c = 5 -> << "fuchsia_koga", "saffron_sabrina" >>
    [] c = 6 -> << "cinnabar_blaine", "fuchsia_koga" >>
    [] c = 7 -> << "viridian_giovanni" >>
    [] c = 8 -> << "elite_four" >>
    [] OTHER -> << >>

\* get_current_step() snapping to the last entry of the whitelist
get_current_step_last(saved, b) ==
  LET valid_steps == step_ranges(BadgeCount(b))
  IN  IF InSeq(saved, valid_steps) THEN saved
      ELSE IF Len(valid_steps) > 0 THEN valid_steps[Len(valid_steps)]
      ELSE "game_complete"

\* get_current_step() that never trusts the persisted step
get_current_step_snap(saved, b) ==
  LET valid_steps == step_ranges(BadgeCount(b))
  IN  IF Len(valid_steps) > 0 THEN valid_steps[1] ELSE "game_complete"

\* get_current_step(): the milestone selected for a persisted step and the
\* badge byte of the snapshot
get_current_step(saved, b) ==
  LET valid_steps == step_ranges(BadgeCount(b))
  IN  IF InSeq(saved, valid_steps) THEN saved
      ELSE IF Len(valid_steps) > 0 THEN valid_steps[1]
      ELSE "game_complete"

\* badge_to_step of sync_with_badges: badge count -> minimum step ("" = None)
badge_to_step(c) ==
  CASE c = 1 -> "mt_moon"
    [] c = 2 -> "nugget_bridge_bill"
    [] c = 3 -> "rock_tunnel"
    [] c = 4 -> "pokemon_tower"
    [] c = 5 -> "fuchsia_koga"
    [] c = 6 -> "cinnabar_blaine"
    [] c = 7 -> "viridian_giovanni"
    [] c = 8 -> "elite_four"
    [] OTHER -> ""

\* load_state(): defaults when the file is missing or unreadable
DefaultState == [step |-> "pallet_start", badges |-> 0, completed_steps |-> << >>]

\* json.dump writes an int as its decimal digits; json.load reads them back
RECURSIVE json_dump_int(_)
json_dump_int(n) ==
  IF n < 10 THEN << n >> ELSE Append(json_dump_int(n \div 10), n % 10)

\* json.load of a number that keeps only its last digit
json_load_int_last(d) == d[Len(d)]

RECURSIVE json_load_int(_)
json_load_int(d) ==
  IF Len(d) = 1 THEN d[1]
  ELSE 10 * json_load_int(SubSeq(d, 1, Len(d) - 1)) + d[Len(d)]

\* json.dump(state, f): the JSON object written for a state
json_dump(st) ==
  [ step |-> st.step,
    badges |-> json_dump_int(st.badges),
    completed_steps |-> st.completed_steps ]

\* The state file: missing, not parseable as JSON (also an empty or
\* truncated file), a JSON value that is not an object, or a JSON object
MissingFile == [kind |-> "missing", data |-> DefaultState]
CorruptFile == [kind |-> "corrupt", data |-> DefaultState]
OtherJsonFile == [kind |-> "other", data |-> DefaultState]
RecordFile(st) == [kind |-> "record", data |-> json_dump(st)]

\* a JSON object that holds only the fields `keys` of a state
StateKeys == {"step", "badges", "completed_steps"}
PartialFile(st, keys) ==
  [kind |-> "record", data |-> [k \in keys |-> json_dump(st)[k]]]

\* load_state() raises: state.setdefault on a value that is not a dict
\* (AttributeError is not among the exceptions load_state catches)
load_raises(f) == f.kind = "other"

\* load_state(): the object of the file with each missing field set to its
\* default; the defaults when the file is missing or is not JSON
load_state(f) ==
  IF f.kind = "record"
  THEN LET d == f.data
       IN  [ step |-> IF "step" \in DOMAIN d THEN d.step
                      ELSE DefaultState.step,
             badges |-> IF "badges" \in DOMAIN d THEN json_load_int(d.badges)
                        ELSE DefaultState.badges,
             completed_steps |->
               IF "completed_steps" \in DOMAIN d THEN d.completed_steps
               ELSE DefaultState.completed_steps ]
  ELSE IF f.kind \in {"missing", "corrupt"} THEN DefaultState
  ELSE CHOOSE raised \in {} : TRUE

\* _mark_complete() that does not advance the step
mark_complete_stay(st, step_name, b) ==
  [ completed_steps |->
      IF InSeq(step_name, st.completed_steps) THEN st.completed_steps
      ELSE Append(st.completed_steps, step_name),
    step |-> st.step,
    badges |-> b ]

\* _mark_complete() that does not record the badge byte
mark_complete_keep_badges(st, step_name, b) ==
  LET idx == StepIndex(step_name)
  IN  [ completed_steps |->
          IF InSeq(step_name, st.completed_steps) THEN st.completed_steps
          ELSE Append(st.completed_steps, step_name),
        step |-> IF 1 <= idx /\ idx < Len(STEP_ORDER)
                 THEN STEP_ORDER[idx + 1] ELSE st.step,
        badges |-> st.badges ]

\* _mark_complete(step_name) on the in-memory state, b = gs.badges
mark_complete(st, step_name, b) ==
  LET idx == StepIndex(step_name)
  IN  [ completed_steps |->
          IF InSeq(step_name, st.completed_steps) THEN st.completed_steps
          ELSE Append(st.completed_steps, step_name),
        step |-> IF 1 <= idx /\ idx < Len(STEP_ORDER)
                 THEN STEP_ORDER[idx + 1] ELSE st.step,
        badges |-> b ]

\* the two completion calls that end step_elite_four
elite_four_done(st, b) ==
  mark_complete(mark_complete(st, "elite_four", b), "game_complete", b)

\* the completion every handler ends with
handler_done(st, s, b) ==
  IF s = "elite_four" THEN elite_four_done(st, b) ELSE mark_complete(st, s, b)

\* save_state(): what the file holds after a write attempt of st
\*   "ok"         the record is written
\*   "open_fail"  open() raises IOError, the file is untouched
\*   "write_fail" open() truncated the file and the dump failed
WriteOutcomes == {"ok", "open_fail", "write_fail"}

save_state(f, st, w) ==
  CASE w = "ok" -> RecordFile(st)
    [] w = "open_fail" -> f
    [] OTHER -> CorruptFile

\* ------------------------------------------------------------------------
\* State
\* ------------------------------------------------------------------------
VARIABLES
  state,          \* ProgressionManager.state (step, badges, completed_steps)
  file,           \* content of STATE_FILE
  badges,         \* GameState.badges as of the last update()
  in_battle,      \* GameState.in_battle as of the last update()
  needs_heal,     \* GameState.needs_heal as of the last update()
  stall_history,  \* ProgressionManager._stall_history
  stall_retries,  \* ProgressionManager._stall_retries (0 = no entry)
  step,           \* the value get_current_step returned to the call in
                  \* progress (local `step` of run_next_step)
  invoked,        \* handler invoked by the last run_next_step call ("" = none)
  pc,             \* position of the driver
  events,         \* environment events so far
  nav,            \* the Navigator call in progress: its locals, the
                  \* GameState snapshot it reads and the emulator memory
  battle,         \* the BattleAI call in progress: the emulator memory it
                  \* reads and what it returns
  drive           \* a ProgressionManager driven by run_next_step calls
                  \* alone: what the calls since the window was last empty
                  \* did

vars == << state, file, badges, in_battle, needs_heal, stall_history,
           stall_retries, step, invoked, pc, events, nav, battle, drive >>

stallvars == << stall_history, stall_retries >>

\* the maps and positions the snapshots show
Maps == {PALLET_TOWN, VIRIDIAN_CITY}
Coords == 0..MaxCoord

\* badge bytes of the games the emulator starts from: a new game and a
\* saved game with seven badges
SaveGames == {0, 2 ^ 7 - 1}

CanHappen == events < MaxEvents

\* the badge bytes the emulator's memory may show next: the byte never loses
\* a bit, and the next badge may have been earned
earn_badge ==
  {badges} \cup
    (IF CanHappen /\ badges < 2 ^ BADGE_BITS - 1 THEN {2 * badges + 1} ELSE {})

\* the event count once the badge byte reads b
earned(b) == IF b = badges THEN events ELSE events + 1

NoRetries == [s \in Steps |-> 0]

\* no Navigator call in progress
NavIdle == [op |-> "idle"]

\* no BattleAI call in progress
BattleIdle == [op |-> "idle"]

\* no run_next_step drive
DriveIdle == [op |-> "idle"]

Init ==
  /\ nav = NavIdle
  /\ battle = BattleIdle
  /\ drive = DriveIdle
  /\ file = MissingFile
  /\ state = load_state(file)
  /\ badges \in SaveGames
  /\ in_battle = FALSE /\ needs_heal = FALSE
  /\ stall_history = << >>
  /\ stall_retries = NoRetries
  /\ step = "" /\ invoked = ""
  /\ pc = "start"
  /\ events = 0

\* a store whose failed write also loses the in-memory update
store_lost(st, ev) ==
  \/ /\ state' = st
     /\ file' = save_state(file, st, "ok")
     /\ events' = ev
  \/ /\ ev < MaxEvents
     /\ UNCHANGED state
     /\ \E w \in WriteOutcomes \ {"ok"} : file' = save_state(file, st, w)
     /\ events' = ev + 1

\* _mark_complete / sync_with_badges storing st and calling save_state();
\* ev is the event count before the write
store(st, ev) ==
  /\ state' = st
  /\ \/ /\ file' = save_state(file, st, "ok")
        /\ events' = ev
     \/ /\ ev < MaxEvents
        /\ \E w \in WriteOutcomes \ {"ok"} : file' = save_state(file, st, w)
        /\ events' = ev + 1

\* sync_with_badges(b) without the comparison of the positions
sync_writes_any(st, b) == badge_to_step(BadgeCount(b)) # ""

\* sync_with_badges(b): whether it sets the step and saves: some badge, and
\* the persisted step unknown or before the expected one
sync_writes(st, b) ==
  LET expected_step == badge_to_step(BadgeCount(b))
  IN  /\ expected_step # ""
      /\ \/ StepIndex(st.step) = 0
         \/ StepIndex(st.step) < StepIndex(expected_step)

\* sync_with_badges(b): the step it leaves
sync_step(st, b) ==
  IF sync_writes(st, b) THEN badge_to_step(BadgeCount(b)) ELSE st.step

\* sync_with_badges(b)
sync_with_badges(b) ==
  IF sync_writes(state, b)
  THEN store([state EXCEPT !.step = sync_step(state, b), !.badges = b], events)
  ELSE UNCHANGED << state, file, events >>

\* PokemonBot._sync_progression_state: sync_with_badges(gs.badges) at start
sync_progression_state ==
  /\ pc = "start"
  /\ UNCHANGED << nav, battle, drive >>
  /\ sync_with_badges(badges)
  /\ pc' = "top"
  /\ UNCHANGED << badges, in_battle, needs_heal, stallvars, step, invoked >>

\* PokemonBot.run, step 1: game_state.update()
Refresh ==
  /\ pc = "top"
  /\ UNCHANGED << nav, battle, drive >>
  /\ \E b \in earn_badge : badges' = b /\ events' = earned(b)
  /\ in_battle' \in BOOLEAN
  /\ needs_heal' \in BOOLEAN
  /\ pc' = "branch"
  /\ UNCHANGED << state, file, stallvars, step, invoked >>

\* PokemonBot.run, step 2: one battle turn
BattleTurn ==
  /\ pc = "branch"
  /\ UNCHANGED << nav, battle, drive >>
  /\ in_battle
  /\ pc' = "tick"
  /\ UNCHANGED << state, file, badges, in_battle, needs_heal, stallvars,
                  step, invoked, events >>

\* a heal attempt that does not yield to a battle
HealAttempt_during_battle ==
  /\ pc = "branch"
  /\ UNCHANGED << nav, battle, drive >>
  /\ needs_heal
  /\ pc' = "tick"
  /\ UNCHANGED << state, file, badges, in_battle, needs_heal, stallvars,
                  step, invoked, events >>

\* PokemonBot.run, step 3: one heal attempt
HealAttempt ==
  /\ pc = "branch"
  /\ UNCHANGED << nav, battle, drive >>
  /\ ~in_battle /\ needs_heal
  /\ pc' = "tick"
  /\ UNCHANGED << state, file, badges, in_battle, needs_heal, stallvars,
                  step, invoked, events >>

\* a window that is never trimmed
push_history_keep_all(h, snap) == Append(h, snap)

\* the window after appending snap and dropping the oldest entry
push_history(h, snap) ==
  LET a == Append(h, snap)
  IN  IF Len(a) > STALL_WINDOW THEN Tail(a) ELSE a

\* the comparison of the window with the position compared too
all_same_pos(h, snap) ==
  /\ Len(h) = STALL_WINDOW
  /\ \A i \in 1..Len(h) :
       h[i][1] = snap[1] /\ h[i][2] = snap[2] /\ h[i][3] = snap[3]

\* all(h[0] == step and h[1] == snap[1] for h in history) on a full window
all_same(h, snap) ==
  /\ Len(h) = STALL_WINDOW
  /\ \A i \in 1..Len(h) : h[i][1] = snap[1] /\ h[i][2] = snap[2]

\* PokemonBot.run, step 4, up to the stall detector of run_next_step:
\* select the step, leave the loop on the sentinel, else snapshot and count
run_next_step ==
  /\ pc = "branch"
  /\ UNCHANGED << nav, battle, drive >>
  /\ ~in_battle /\ ~needs_heal
  /\ \E m \in Maps, x \in Coords :
     LET current_step == get_current_step(state.step, badges)
         snap == << current_step, m, x >>
         h == push_history(stall_history, snap)
     IN  IF current_step = "game_complete"
         THEN /\ pc' = "done"
              /\ UNCHANGED << stallvars, step, invoked >>
         ELSE /\ step' = current_step
              /\ invoked' = ""
              /\ stall_history' = h
              /\ IF all_same(h, snap)
                 THEN /\ stall_retries' =
                           [stall_retries EXCEPT ![current_step] = @ + 1]
                      /\ pc' = IF stall_retries[current_step] + 1 >= STALL_MAX_RETRIES
                               THEN "skip" ELSE "dispatch"
                 ELSE /\ UNCHANGED stall_retries
                      /\ pc' = "dispatch"
  /\ UNCHANGED << state, file, badges, in_battle, needs_heal, events >>

\* run_next_step, forced skip: clear the window and the counter, complete
forced_skip ==
  /\ pc = "skip"
  /\ UNCHANGED << nav, battle, drive >>
  /\ stall_history' = << >>
  /\ stall_retries' = [stall_retries EXCEPT ![step] = 0]
  /\ store(mark_complete(state, step, badges), events)
  /\ step' = ""
  /\ pc' = "tick"
  /\ UNCHANGED << badges, in_battle, needs_heal, invoked >>

\* run_next_step, dispatch: the handler of `step` runs to its completion
\* call, or raises before it (PokemonBot.run logs the error and goes on)
dispatch ==
  /\ pc = "dispatch"
  /\ UNCHANGED << nav, battle, drive >>
  /\ IF step \in Steps \ {"game_complete"}
     THEN /\ invoked' = step
          /\ \E b \in earn_badge :
               /\ badges' = b
               /\ \/ store(handler_done(state, step, b), earned(b))
                  \/ /\ earned(b) < MaxEvents
                     /\ events' = earned(b) + 1
                     /\ UNCHANGED << state, file >>
     ELSE UNCHANGED << invoked, badges, state, file, events >>
  /\ step' = ""
  /\ pc' = "tick"
  /\ UNCHANGED << in_battle, needs_heal, stallvars >>

\* PokemonBot.run, step 5: advance one frame
Tick ==
  /\ pc = "tick"
  /\ UNCHANGED << nav, battle, drive >>
  /\ pc' = "top"
  /\ UNCHANGED << state, file, badges, in_battle, needs_heal, stallvars,
                  step, invoked, events >>

\* the process ends (stop() saves the state, a crash does not) and is started
\* again: ProgressionManager.__init__ loads the file
Restart ==
  /\ CanHappen
  /\ UNCHANGED << nav, battle, drive >>
  /\ pc # "start"
  /\ \/ file' = save_state(file, state, "ok")
     \/ UNCHANGED file
  /\ events' = events + 1
  /\ state' = load_state(file')
  /\ stall_history' = << >>
  /\ stall_retries' = NoRetries
  /\ step' = "" /\ invoked' = ""
  /\ pc' = "start"
  /\ UNCHANGED << badges, in_battle, needs_heal >>

Next ==
  \/ sync_progression_state
  \/ Refresh
  \/ BattleTurn
  \/ HealAttempt
  \/ run_next_step
  \/ forced_skip
  \/ dispatch
  \/ Tick
  \/ Restart

Spec == Init /\ [][Next]_vars

\* The control loop never stops by itself: PokemonBot.run with
\* max_steps = None loops until it reads the sentinel.
LiveInit == Init /\ badges = 2 ^ 7 - 1

LiveSpec == LiveInit /\ [][Next]_vars /\ WF_vars(Next)

\* frames advanced by step 5 and by the handler of an unexpected error
TICK_FRAMES == 1
ERROR_PAUSE_FRAMES == 30

\* PokemonBot.run: a call outside the inner try blocks raises: the refresh
\* (game_state.update), the battle turn, or the tick and the screenshot
unexpected_error ==
  /\ \/ pc = "top"
     \/ pc = "branch" /\ in_battle
     \/ pc = "tick"
  /\ pc' = "pause"
  /\ UNCHANGED << state, file, badges, in_battle, needs_heal, stallvars,
                  step, invoked, events, nav, battle, drive >>

\* PokemonBot.run, except Exception: log, emulator.tick(30), step += 1
error_pause ==
  /\ pc = "pause"
  /\ pc' = "top"
  /\ UNCHANGED << state, file, badges, in_battle, needs_heal, stallvars,
                  step, invoked, events, nav, battle, drive >>

\* frames the emulator is advanced by when the iteration at p ends
frames_at_end(p) ==
  IF p = "tick" THEN TICK_FRAMES
  ELSE IF p = "pause" THEN ERROR_PAUSE_FRAMES
  ELSE 0

\* the control loop with its handler of unexpected errors
LoopNext == Next \/ unexpected_error \/ error_pause

LoopSpec == LiveInit /\ [][LoopNext]_vars

\* ------------------------------------------------------------------------
\* The operations of ProgressionManager called once on any persisted step
\* and any badge byte (a state file left by an earlier run, a saved game)
\* ------------------------------------------------------------------------
ApiInit ==
  /\ nav = NavIdle
  /\ battle = BattleIdle
  /\ drive = DriveIdle
  /\ \E s \in Steps :
       state = [step |-> s, badges |-> 0, completed_steps |-> << >>]
  /\ file = RecordFile(state)
  /\ badges \in 0..(2 ^ BADGE_BITS - 1)
  /\ in_battle = FALSE /\ needs_heal = FALSE
  /\ stall_history = << >>
  /\ stall_retries = NoRetries
  /\ step = "" /\ invoked = ""
  /\ pc = "api"
  /\ events = 0

\* a call of get_current_step()
api_get_current_step ==
  /\ pc = "api"
  /\ UNCHANGED << nav, battle, drive >>
  /\ step' = get_current_step(state.step, badges)
  /\ pc' = "returned"
  /\ UNCHANGED << state, file, badges, in_battle, needs_heal, stallvars,
                  invoked, events >>

\* a call of sync_with_badges(gs.badges)
api_sync_with_badges ==
  /\ pc = "api"
  /\ UNCHANGED << nav, battle, drive >>
  /\ sync_with_badges(badges)
  /\ pc' = "synced"
  /\ UNCHANGED << badges, in_battle, needs_heal, stallvars, step, invoked >>

ApiNext == api_get_current_step \/ api_sync_with_badges

ApiSpec == ApiInit /\ [][ApiNext]_vars

\* ------------------------------------------------------------------------
\* run_next_step called again and again on a ProgressionManager with any
\* persisted step and any badge count; each call is the whole method: the
\* step selection, the stall detector, and the forced skip or the dispatch
\* with the handler it invokes. drive records the calls made (total) and,
\* of the calls made since the window was last empty: calls (how many), handled (how many invoked a
\* handler), steady (all had the same step and map), fresh (the step's
\* retry counter was 0 at the first of them), and, for the last call, what
\* it did and the handlers it invoked.
\* ------------------------------------------------------------------------

\* the dict of run_next_step with two entries exchanged
dispatch_table_swapped ==
  [ pallet_start |-> "step_pallet_town",
    route1_to_viridian |-> "step_route1_to_viridian",
    viridian_parcel |-> "step_viridian_parcel",
    viridian_forest |-> "step_viridian_forest",
    pewter_brock |-> "step_pewter_brock",
    mt_moon |-> "step_mt_moon",
    cerulean_misty |-> "step_cerulean_misty",
    nugget_bridge_bill |-> "step_nugget_bridge_bill",
    vermilion_ltsurge |-> "step_vermilion_ltsurge",
    rock_tunnel |-> "step_rock_tunnel",
    celadon_erika |-> "step_celadon_erika",
    pokemon_tower |-> "step_pokemon_tower",
    saffron_sabrina |-> "step_saffron_sabrina",
    fuchsia_koga |-> "step_fuchsia_koga",
    cinnabar_blaine |-> "step_cinnabar_blaine",
    viridian_giovanni |-> "step_elite_four",
    elite_four |-> "step_viridian_giovanni" ]

\* the dict `dispatch` of run_next_step: step -> method
dispatch_table ==
  [ pallet_start |-> "step_pallet_town",
    route1_to_viridian |-> "step_route1_to_viridian",
    viridian_parcel |-> "step_viridian_parcel",
    viridian_forest |-> "step_viridian_forest",
    pewter_brock |-> "step_pewter_brock",
    mt_moon |-> "step_mt_moon",
    cerulean_misty |-> "step_cerulean_misty",
    nugget_bridge_bill |-> "step_nugget_bridge_bill",
    vermilion_ltsurge |-> "step_vermilion_ltsurge",
    rock_tunnel |-> "step_rock_tunnel",
    celadon_erika |-> "step_celadon_erika",
    pokemon_tower |-> "step_pokemon_tower",
    saffron_sabrina |-> "step_saffron_sabrina",
    fuchsia_koga |-> "step_fuchsia_koga",
    cinnabar_blaine |-> "step_cinnabar_blaine",
    viridian_giovanni |-> "step_viridian_giovanni",
    elite_four |-> "step_elite_four" ]

\* the milestone each step_* method passes to its completion call
handler_milestone ==
  [ step_pallet_town |-> "pallet_start",
    step_route1_to_viridian |-> "route1_to_viridian",
    step_viridian_parcel |-> "viridian_parcel",
    step_viridian_forest |-> "viridian_forest",
    step_pewter_brock |-> "pewter_brock",
    step_mt_moon |-> "mt_moon",
    step_cerulean_misty |-> "cerulean_misty",
    step_nugget_bridge_bill |-> "nugget_bridge_bill",
    step_vermilion_ltsurge |-> "vermilion_ltsurge",
    step_rock_tunnel |-> "rock_tunnel",
    step_celadon_erika |-> "celadon_erika",
    step_pokemon_tower |-> "pokemon_tower",
    step_saffron_sabrina |-> "saffron_sabrina",
    step_fuchsia_koga |-> "fuchsia_koga",
    step_cinnabar_blaine |-> "cinnabar_blaine",
    step_viridian_giovanni |-> "viridian_giovanni",
    step_elite_four |-> "elite_four" ]

\* badge bytes with the first k badges
BadgeBytes == { 2 ^ k - 1 : k \in 0..BADGE_BITS }

DriveInit ==
  /\ nav = NavIdle
  /\ battle = BattleIdle
  /\ drive = [ op |-> "run_next_step", total |-> 0, calls |-> 0,
               handled |-> 0,
               steady |-> TRUE, fresh |-> TRUE, last |-> "none",
               handlers |-> << >> ]
  /\ \E s \in Steps :
       state = [step |-> s, badges |-> 0, completed_steps |-> << >>]
  /\ file = RecordFile(state)
  /\ badges \in BadgeBytes
  /\ in_battle = FALSE /\ needs_heal = FALSE
  /\ stall_history = << >>
  /\ stall_retries = NoRetries
  /\ step = "" /\ invoked = ""
  /\ pc = "drive"
  /\ events = MaxEvents   \* every write of the state file succeeds

\* one run_next_step call; the snapshot shows map m, and the handler either
\* reaches its completion call or returns (or raises) before it
drive_run_next_step ==
  /\ pc = "drive" /\ drive.op = "run_next_step"
  /\ drive.total < MaxCalls
  /\ UNCHANGED << nav, battle >>
  /\ \E m \in Maps, completes \in BOOLEAN :
     LET current_step == get_current_step(state.step, badges)
         snap == << current_step, m, 0 >>
         h == push_history(stall_history, snap)
         first == stall_history = << >>
         prev == stall_history[Len(stall_history)]
         d == [ drive EXCEPT
                  !.total = @ + 1,
                  !.calls = IF first THEN 1 ELSE @ + 1,
                  !.handled = IF first THEN 0 ELSE @,
                  !.steady = IF first THEN TRUE
                             ELSE @ /\ prev[1] = snap[1] /\ prev[2] = snap[2],
                  !.fresh = IF first THEN stall_retries[current_step] = 0
                            ELSE @,
                  !.handlers = << >> ]
         retries == stall_retries[current_step] + 1
     IN  /\ step' = current_step
         /\ IF all_same(h, snap) /\ retries >= STALL_MAX_RETRIES
            THEN /\ stall_history' = << >>
                 /\ stall_retries' = [stall_retries EXCEPT ![current_step] = 0]
                 /\ store(mark_complete(state, current_step, badges), events)
                 /\ invoked' = ""
                 /\ drive' = [ d EXCEPT !.last = "skip" ]
            ELSE /\ stall_history' = h
                 /\ stall_retries' =
                      IF all_same(h, snap)
                      THEN [stall_retries EXCEPT ![current_step] = retries]
                      ELSE stall_retries
                 /\ IF current_step \in DOMAIN dispatch_table
                    THEN LET fn == dispatch_table[current_step]
                         IN  /\ invoked' = handler_milestone[fn]
                             /\ drive' = [ d EXCEPT !.last = "dispatch",
                                                    !.handled = @ + 1,
                                                    !.handlers = << fn >> ]
                             /\ IF completes
                                THEN store(handler_done(state,
                                             handler_milestone[fn], badges),
                                           events)
                                ELSE UNCHANGED << state, file, events >>
                    ELSE /\ invoked' = ""
                         /\ drive' = [ d EXCEPT !.last = "none" ]
                         /\ UNCHANGED << state, file, events >>
  /\ UNCHANGED << badges, in_battle, needs_heal, pc >>

DriveNext == drive_run_next_step

DriveSpec == DriveInit /\ [][DriveNext]_vars

\* ------------------------------------------------------------------------
\* The state file through one run: ProgressionManager.__init__ loads a file
\* left by an earlier run or by another version of the program, then a
\* completion call or a save is made, and the process may stop inside it
\* ------------------------------------------------------------------------

\* states an earlier run may have saved
SavedStates ==
  { [step |-> s, badges |-> b, completed_steps |-> c] :
      s \in Steps, b \in {0, 2 ^ BADGE_BITS - 1},
      c \in {<< >>, << "pallet_start" >>} }

\* the files __init__ may find
Files ==
  {MissingFile, CorruptFile, OtherJsonFile}
    \cup { PartialFile(st, keys) : st \in SavedStates, keys \in SUBSET StateKeys }

FileInit ==
  /\ nav = NavIdle
  /\ battle = BattleIdle
  /\ drive = DriveIdle
  /\ file \in Files
  /\ state = DefaultState
  /\ badges \in SaveGames
  /\ in_battle = FALSE /\ needs_heal = FALSE
  /\ stall_history = << >>
  /\ stall_retries = NoRetries
  /\ step = "" /\ invoked = ""
  /\ pc = "init"
  /\ events = 0

\* ProgressionManager.__init__: self.state = self.load_state()
file_load ==
  /\ pc = "init"
  /\ UNCHANGED << nav, battle, drive >>
  /\ IF load_raises(file)
     THEN pc' = "refused" /\ UNCHANGED state
     ELSE pc' = "loaded" /\ state' = load_state(file)
  /\ UNCHANGED << file, badges, in_battle, needs_heal, stallvars, step,
                  invoked, events >>

\* a call _mark_complete(s) that returns
file_mark_complete ==
  /\ pc = "loaded"
  /\ UNCHANGED << nav, battle, drive >>
  /\ \E s \in Steps :
       /\ step' = s
       /\ store(mark_complete(state, s, badges), events)
  /\ pc' = "marked"
  /\ UNCHANGED << badges, in_battle, needs_heal, stallvars, invoked >>

\* where the process may stop in _mark_complete(s):
\*   "mutated"    the in-memory state is advanced, save_state not yet called
\*   "truncated"  open(STATE_FILE, "w") has emptied the file, the dump is
\*                not yet (or only partly) on disk
\*   "written"    the file is written and closed
StopPoints == {"mutated", "truncated", "written"}

file_at_stop(f, st, p) ==
  CASE p = "mutated" -> f
    [] p = "truncated" -> CorruptFile
    [] OTHER -> RecordFile(st)

\* the process stops inside _mark_complete(s) and is started again
file_crash ==
  /\ pc = "loaded"
  /\ UNCHANGED << nav, battle, drive >>
  /\ \E s \in Steps, p \in StopPoints :
       /\ step' = s
       /\ file' = file_at_stop(file, mark_complete(state, s, badges), p)
  /\ state' = load_state(file')
  /\ pc' = "recovered"
  /\ UNCHANGED << badges, in_battle, needs_heal, stallvars, invoked, events >>

\* save_state() succeeds, then load_state() reads the file back
file_round_trip ==
  /\ pc \in {"loaded", "marked"}
  /\ UNCHANGED << nav, battle, drive >>
  /\ file' = save_state(file, state, "ok")
  /\ state' = load_state(file')
  /\ pc' = "reread"
  /\ UNCHANGED << badges, in_battle, needs_heal, stallvars, step, invoked,
                  events >>

FileNext == file_load \/ file_mark_complete \/ file_crash \/ file_round_trip

FileSpec == FileInit /\ [][FileNext]_vars

\* ------------------------------------------------------------------------
\* Navigator: one call of a multi-step primitive. nav holds the locals of
\* the call, the GameState snapshot (x, y, map_id, in_battle, dialog_open)
\* and the emulator memory the snapshot is read from (ex, ey, emap,
\* ebattle, edialog).
\* Not in the code: world (how the game answers input), start_map for
\* navigate_to, presses (directional inputs issued), confirms (A presses
\* issued), iters (iterations that went on to move), checked (the snapshot
\* was refreshed and tested since the last input) and returned (the number
\* a call returns).
\* ------------------------------------------------------------------------
progvars == << state, file, badges, in_battle, needs_heal, stall_history,
               stall_retries, step, invoked, pc, events >>

\* Direction and Direction.perpendiculars
Directions == {"up", "down", "left", "right"}

\* the two directions along d's own axis
parallels(d) ==
  IF d \in {"up", "down"} THEN << "up", "down" >> ELSE << "left", "right" >>

perpendiculars(d) ==
  IF d \in {"up", "down"} THEN << "left", "right" >> ELSE << "up", "down" >>

\* the tile a step in direction d leads to
step_x(x, d) == CASE d = "left" -> x - 1 [] d = "right" -> x + 1 [] OTHER -> x
step_y(y, d) == CASE d = "up" -> y - 1 [] d = "down" -> y + 1 [] OTHER -> y

Abs(n) == IF n < 0 THEN 0 - n ELSE n

\* "blocked": no input ever changes the position or the map
Worlds == {"blocked", "free"}

\* "bottom_wall": the row along the bottom wall of an interior, as wide as
\* the sweep reaches on both sides; every lateral step moves the character,
\* a step DOWN leaves the map from column exit_x and is blocked elsewhere
SweepCoords == 0..(2 * SWEEP_STEPS)

NavBudgets == {0, 2, MaxNavSteps}

\* press_until's condition_fn: those of press_until_map_change and
\* press_until_x
Conditions == {"map_change", "x_is"}

\* a call as it starts: the snapshot agrees with the emulator memory
NavCall(op, d, c, tx, ty, ms, x0, y0, m0, b0, w) ==
  [ op |-> op, pc |-> IF op = "exit_building" THEN "descent" ELSE "top",
    direction |-> d, cond |-> c,
    target_x |-> tx, target_y |-> ty, max_steps |-> ms,
    i |-> 0, stuck_count |-> 0, last_x |-> x0, last_y |-> y0,
    primary |-> "", secondary |-> "", e |-> 0, sweep |-> 1,
    start_map |-> m0,
    x |-> x0, y |-> y0, map_id |-> m0, in_battle |-> b0,
    ex |-> x0, ey |-> y0, emap |-> m0, ebattle |-> b0,
    dialog_open |-> FALSE, edialog |-> FALSE, mash_presses |-> 0,
    world |-> w, exit_x |-> -1, presses |-> 0, iters |-> 0,
    checked |-> FALSE, confirms |-> 0, result |-> "none", returned |-> 0 ]

NavCalls ==
  { NavCall("navigate_to", "", "", tx, ty, ms, x0, y0, m0, b0, w) :
      tx \in Coords, ty \in Coords, ms \in NavBudgets, x0 \in Coords,
      y0 \in Coords, m0 \in Maps, b0 \in BOOLEAN, w \in Worlds }
  \cup
  { NavCall("press_until", d, c, tx, 0, ms, x0, y0, m0, b0, w) :
      d \in Directions, c \in Conditions, tx \in Coords, ms \in NavBudgets,
      x0 \in Coords, y0 \in Coords, m0 \in Maps, b0 \in BOOLEAN,
      w \in Worlds }
  \cup
  { NavCall("exit_building", "", "", 0, 0, 0, x0, y0, m0, b0, w) :
      x0 \in Coords, y0 \in Coords, m0 \in Maps, b0 \in BOOLEAN,
      w \in Worlds }
  \cup
  { [ NavCall("mash_through_dialog", "", "", 0, 0, ms, 0, 0, m0, FALSE,
              "free")
        EXCEPT !.edialog = d0, !.dialog_open = d1 ] :
      ms \in NavBudgets, m0 \in Maps, d0 \in BOOLEAN, d1 \in BOOLEAN }

NavInit ==
  /\ nav \in NavCalls
  /\ battle = BattleIdle
  /\ drive = DriveIdle
  /\ state = DefaultState
  /\ file = MissingFile
  /\ badges = 0
  /\ in_battle = FALSE /\ needs_heal = FALSE
  /\ stall_history = << >>
  /\ stall_retries = NoRetries
  /\ step = "" /\ invoked = ""
  /\ pc = "nav"
  /\ events = 0

\* GameState.update(): read the emulator memory into the snapshot
update(n) ==
  [ n EXCEPT !.x = n.ex, !.y = n.ey, !.map_id = n.emap,
             !.in_battle = n.ebattle, !.dialog_open = n.edialog ]

\* `return True` / `return False`
return(n, r) == [n EXCEPT !.pc = "done", !.result = r]

\* what the emulator memory may hold after direction d was held for
\* FRAMES_PER_STEP frames: the position kept or one tile further, the map
\* kept or changed, a battle started or not
BottomWallOutcome(n, d) ==
  LET nx == step_x(n.ex, d)
  IN  [ ex |-> IF nx \in SweepCoords THEN nx ELSE n.ex,
        ey |-> n.ey,
        emap |-> IF d = "down" /\ n.ex = n.exit_x
                 THEN CHOOSE m \in Maps : m # n.emap ELSE n.emap,
        ebattle |-> n.ebattle ]

MoveOutcomes(n, d) ==
  IF n.world = "bottom_wall" THEN { BottomWallOutcome(n, d) } ELSE
  LET nx == step_x(n.ex, d)
      ny == step_y(n.ey, d)
      pos == { << n.ex, n.ey >> } \cup
             (IF n.world = "free" /\ nx \in Coords /\ ny \in Coords
              THEN { << nx, ny >> } ELSE {})
      maps == IF n.world = "free" THEN Maps ELSE {n.emap}
  IN  { [ex |-> p[1], ey |-> p[2], emap |-> m, ebattle |-> b] :
          p \in pos, m \in maps, b \in {n.ebattle, TRUE} }

\* move_one_step(d) with outcome o: press, tick, release, gs.update()
move_one_step(n, d, o) ==
  [ n EXCEPT !.ex = o.ex, !.ey = o.ey, !.emap = o.emap, !.ebattle = o.ebattle,
             !.x = o.ex, !.y = o.ey, !.map_id = o.emap,
             !.in_battle = o.ebattle,
             !.presses = @ + 1, !.checked = FALSE ]

\* the value move_one_step returns: the snapshot's position changed
moved(before, after) == after.x # before.x \/ after.y # before.y

\* navigate_to: primary and secondary direction for the snapshot
primary_of(n) ==
  LET dx == n.target_x - n.x
      dy == n.target_y - n.y
  IN  IF Abs(dx) >= Abs(dy)
      THEN (IF dx > 0 THEN "right" ELSE "left")
      ELSE (IF dy > 0 THEN "down" ELSE "up")

secondary_of(n) ==
  LET dx == n.target_x - n.x
      dy == n.target_y - n.y
  IN  IF Abs(dx) >= Abs(dy)
      THEN (IF dy > 0 THEN "down" ELSE IF dy # 0 THEN "up" ELSE primary_of(n))
      ELSE (IF dx > 0 THEN "right" ELSE IF dx # 0 THEN "left"
            ELSE primary_of(n))

\* navigate_to's target test on the first coordinate only
at_target_x(n) == n.x = n.target_x

\* cx == target_x and cy == target_y
at_target(n) == n.x = n.target_x /\ n.y = n.target_y

\* navigate_to, loop head: budget, refresh, battle check, target check,
\* choice of the directions
navigate_to_top ==
  /\ pc = "nav" /\ nav.op = "navigate_to" /\ nav.pc = "top"
  /\ nav' =
       IF nav.i >= nav.max_steps THEN return(nav, "False")
       ELSE LET n == update(nav)
            IN  IF n.in_battle THEN return(n, "False")
                ELSE IF at_target(n) THEN return(n, "True")
                ELSE [ n EXCEPT !.pc = "primary",
                                !.primary = primary_of(n),
                                !.secondary = secondary_of(n),
                                !.iters = @ + 1,
                                !.checked = TRUE ]
  /\ UNCHANGED << progvars, battle, drive >>

\* the stuck detector that never counts
after_moves_unstuck(n) ==
  [ n EXCEPT !.stuck_count = 0, !.last_x = n.x, !.last_y = n.y,
             !.i = @ + 1, !.pc = "top" ]

\* navigate_to, end of an iteration: the stuck detector
after_moves(n) ==
  IF n.x = n.last_x /\ n.y = n.last_y
  THEN IF n.stuck_count + 1 >= MAX_STUCK_TRIES
       THEN [ n EXCEPT !.stuck_count = @ + 1, !.pc = "escape", !.e = 0 ]
       ELSE [ n EXCEPT !.stuck_count = @ + 1, !.i = @ + 1, !.pc = "top" ]
  ELSE [ n EXCEPT !.stuck_count = 0, !.last_x = n.x, !.last_y = n.y,
                  !.i = @ + 1, !.pc = "top" ]

\* navigate_to: moved = self.move_one_step(primary)
navigate_to_primary ==
  /\ pc = "nav" /\ nav.op = "navigate_to" /\ nav.pc = "primary"
  /\ \E o \in MoveOutcomes(nav, nav.primary) :
       LET n == move_one_step(nav, nav.primary, o)
       IN  nav' = IF moved(nav, n) THEN after_moves(n)
                  ELSE [n EXCEPT !.pc = "secondary"]
  /\ UNCHANGED << progvars, battle, drive >>

\* navigate_to: moved = self.move_one_step(secondary)
navigate_to_secondary ==
  /\ pc = "nav" /\ nav.op = "navigate_to" /\ nav.pc = "secondary"
  /\ \E o \in MoveOutcomes(nav, nav.secondary) :
       nav' = after_moves(move_one_step(nav, nav.secondary, o))
  /\ UNCHANGED << progvars, battle, drive >>

\* _escape_stuck(primary): one perpendicular step; e counts those made
escape_stuck ==
  /\ pc = "nav" /\ nav.op = "navigate_to" /\ nav.pc = "escape"
  /\ LET perp == perpendiculars(nav.primary)[(nav.e \div ESCAPE_STEPS) + 1]
     IN  \E o \in MoveOutcomes(nav, perp) :
           LET n == move_one_step(nav, perp, o)
           IN  nav' = IF moved(nav, n)
                      THEN [ n EXCEPT !.stuck_count = 0, !.i = @ + 1,
                                      !.pc = "top" ]
                      ELSE IF nav.e + 1 >= 2 * ESCAPE_STEPS
                      THEN return(n, "False")
                      ELSE [ n EXCEPT !.e = @ + 1 ]
  /\ UNCHANGED << progvars, battle, drive >>

\* condition_fn() on the snapshot
condition_fn(n) ==
  IF n.cond = "map_change" THEN n.map_id # n.start_map ELSE n.x = n.target_x

\* press_until, loop head: budget, refresh, condition, battle check
press_until_top ==
  /\ pc = "nav" /\ nav.op = "press_until" /\ nav.pc = "top"
  /\ nav' =
       IF nav.i >= nav.max_steps THEN return(nav, "False")
       ELSE LET n == update(nav)
            IN  IF condition_fn(n) THEN return(n, "True")
                ELSE IF n.in_battle THEN return(n, "False")
                ELSE [ n EXCEPT !.pc = "move", !.iters = @ + 1,
                                !.checked = TRUE ]
  /\ UNCHANGED << progvars, battle, drive >>

\* press_until's step that does not count against the budget
press_until_move_uncounted ==
  /\ pc = "nav" /\ nav.op = "press_until" /\ nav.pc = "move"
  /\ \E o \in MoveOutcomes(nav, nav.direction) :
       nav' = [ move_one_step(nav, nav.direction, o) EXCEPT !.pc = "top" ]
  /\ UNCHANGED << progvars, battle, drive >>

\* press_until: self.move_one_step(direction)
press_until_move ==
  /\ pc = "nav" /\ nav.op = "press_until" /\ nav.pc = "move"
  /\ \E o \in MoveOutcomes(nav, nav.direction) :
       nav' = [ move_one_step(nav, nav.direction, o) EXCEPT
                  !.i = @ + 1, !.pc = "top" ]
  /\ UNCHANGED << progvars, battle, drive >>

\* exit_building, phase 1: one step DOWN of the descent
exit_building_descent ==
  /\ pc = "nav" /\ nav.op = "exit_building" /\ nav.pc = "descent"
  /\ \E o \in MoveOutcomes(nav, "down") :
       LET n == move_one_step(nav, "down", o)
       IN  nav' = IF n.map_id # n.start_map THEN return(n, "True")
                  ELSE IF n.y = nav.y \/ nav.i + 1 >= DESCENT_STEPS
                  THEN [ n EXCEPT !.pc = "lateral", !.i = 0, !.sweep = 1 ]
                  ELSE [ n EXCEPT !.i = @ + 1 ]
  /\ UNCHANGED << progvars, battle, drive >>

\* _sweep_for_exit: the lateral step (LEFT on the first side, then RIGHT)
sweep_lateral ==
  /\ pc = "nav" /\ nav.op = "exit_building" /\ nav.pc = "lateral"
  /\ LET direction == << "left", "right" >>[nav.sweep]
     IN  \E o \in MoveOutcomes(nav, direction) :
           LET n == move_one_step(nav, direction, o)
           IN  nav' = IF n.map_id # n.start_map THEN return(n, "True")
                      ELSE [ n EXCEPT !.pc = "down" ]
  /\ UNCHANGED << progvars, battle, drive >>

\* _sweep_for_exit: the step DOWN from this column, and the loop ends
sweep_down ==
  /\ pc = "nav" /\ nav.op = "exit_building" /\ nav.pc = "down"
  /\ \E o \in MoveOutcomes(nav, "down") :
       LET n == move_one_step(nav, "down", o)
       IN  nav' = IF n.map_id # n.start_map THEN return(n, "True")
                  ELSE IF nav.i + 1 < SWEEP_STEPS
                  THEN [ n EXCEPT !.i = @ + 1, !.pc = "lateral" ]
                  ELSE IF nav.sweep = 1
                  THEN [ n EXCEPT !.i = 0, !.sweep = 2, !.pc = "lateral" ]
                  ELSE return(n, "False")
  /\ UNCHANGED << progvars, battle, drive >>

\* mash_through_dialog that presses before it looks
mash_through_dialog_top_blind ==
  /\ pc = "nav" /\ nav.op = "mash_through_dialog" /\ nav.pc = "top"
  /\ nav' =
       IF nav.i >= nav.max_steps
       THEN [ return(nav, "int") EXCEPT !.returned = nav.mash_presses ]
       ELSE [ nav EXCEPT !.pc = "press", !.checked = TRUE ]
  /\ UNCHANGED << progvars, battle, drive >>

\* mash_through_dialog, loop head: budget (max_presses), refresh, dialog
\* test; `return presses`
mash_through_dialog_top ==
  /\ pc = "nav" /\ nav.op = "mash_through_dialog" /\ nav.pc = "top"
  /\ nav' =
       IF nav.i >= nav.max_steps
       THEN [ return(nav, "int") EXCEPT !.returned = nav.mash_presses ]
       ELSE LET n == update(nav)
            IN  IF ~n.dialog_open
                THEN [ return(n, "int") EXCEPT !.returned = n.mash_presses ]
                ELSE [ n EXCEPT !.pc = "press", !.checked = TRUE ]
  /\ UNCHANGED << progvars, battle, drive >>

\* mash_through_dialog: press A for FRAMES_DIALOG frames, presses += 1;
\* the press may close the dialog
mash_through_dialog_press ==
  /\ pc = "nav" /\ nav.op = "mash_through_dialog" /\ nav.pc = "press"
  /\ \E d \in BOOLEAN :
       nav' = [ nav EXCEPT !.edialog = d, !.confirms = @ + 1,
                           !.mash_presses = @ + 1, !.i = @ + 1,
                           !.checked = FALSE, !.pc = "top" ]
  /\ UNCHANGED << progvars, battle, drive >>

PressUntilNext == press_until_top \/ press_until_move

NavigateToNext ==
  \/ navigate_to_top
  \/ navigate_to_primary
  \/ navigate_to_secondary
  \/ escape_stuck

NavNext ==
  \/ NavigateToNext
  \/ press_until_top
  \/ press_until_move
  \/ mash_through_dialog_top
  \/ mash_through_dialog_press
  \/ exit_building_descent
  \/ sweep_lateral
  \/ sweep_down

NavSpec == NavInit /\ [][NavNext]_vars

\* navigate_to where every directional input is blocked; the loop of
\* navigate_to runs on without waiting
NavBlockedInit ==
  /\ NavInit
  /\ nav.op = "navigate_to"
  /\ nav.world = "blocked"

NavBlockedSpec ==
  NavBlockedInit /\ [][NavigateToNext]_vars /\ WF_vars(NavigateToNext)

\* exit_building started in the middle of a bottom wall, the exit below any
\* column
SweepInit ==
  /\ \E c \in SweepCoords :
       nav = [ NavCall("exit_building", "", "", 0, 0, 0, SWEEP_STEPS, 0,
                       PALLET_TOWN, FALSE, "bottom_wall")
                 EXCEPT !.exit_x = c ]
  /\ battle = BattleIdle
  /\ drive = DriveIdle
  /\ state = DefaultState
  /\ file = MissingFile
  /\ badges = 0
  /\ in_battle = FALSE /\ needs_heal = FALSE
  /\ stall_history = << >>
  /\ stall_retries = NoRetries
  /\ step = "" /\ invoked = ""
  /\ pc = "nav"
  /\ events = 0

SweepNext == exit_building_descent \/ sweep_lateral \/ sweep_down

SweepSpec == SweepInit /\ [][SweepNext]_vars

\* ------------------------------------------------------------------------
\* go_to_pokecenter(navigator, game_state), one call from its first line to
\* its return. nav holds the map of the snapshot, the position of the call,
\* the dialog flag the walk and the dialog loop read, the inputs sent so far
\* (ups, a_presses) and the value returned.
\* ------------------------------------------------------------------------

\* the keys and values of CITY_TO_POKECENTER
CITY_TO_POKECENTER ==
  (1 :> 181) @@ (2 :> 182) @@ (3 :> 183) @@ (4 :> 184) @@ (5 :> 185) @@
  (6 :> 186) @@ (7 :> 187) @@ (9 :> 188) @@ (8 :> 189) @@ (10 :> 190)

\* the set pokecenter_maps of go_to_pokecenter: the ten interiors
pokecenter_maps == 181..190

\* the keys of ROUTE_TO_NEAREST_CITY: routes 1-18 and 22-25
ROUTE_TO_NEAREST_CITY_keys == (12..29) \cup (31..34)

ROUTE_1 == 12
VIRIDIAN_POKECENTER == 181
UNKNOWN_MAP == 255

\* the literal budgets of the calls made inside a Pokecenter
POKECENTER_WALK_STEPS == 10
POKECENTER_MASH_A == 20
POKECENTER_DIALOG_PRESSES == 30

\* the maps the call is made on: no table, a city, a route, an interior,
\* and a map in none of the tables
PokecenterCallMaps ==
  {PALLET_TOWN, VIRIDIAN_CITY, ROUTE_1, VIRIDIAN_POKECENTER, UNKNOWN_MAP}

PokecenterCall(m, dlg) ==
  [ op |-> "go_to_pokecenter", pc |-> "start", map_id |-> m,
    dialog_open |-> dlg, ups |-> 0, a_presses |-> 0, presses |-> 0,
    result |-> "none" ]

PokecenterInit ==
  /\ battle = BattleIdle
  /\ drive = DriveIdle
  /\ state = DefaultState
  /\ file = RecordFile(DefaultState)
  /\ badges = 0
  /\ in_battle = FALSE /\ needs_heal = TRUE
  /\ stall_history = << >>
  /\ stall_retries = NoRetries
  /\ step = "" /\ invoked = ""
  /\ pc = "nav"
  /\ events = 0
  /\ \E m \in PokecenterCallMaps, dlg \in BOOLEAN : nav = PokecenterCall(m, dlg)

\* the branch taken on map m: "walk" inside a Pokecenter; every other
\* branch logs and returns False
go_to_pokecenter_branch(m) ==
  IF m \in pokecenter_maps THEN "walk"
  ELSE IF m \in DOMAIN CITY_TO_POKECENTER THEN "done"
  ELSE IF m \in ROUTE_TO_NEAREST_CITY_keys THEN "done"
  ELSE "done"

\* the map tests at the head of go_to_pokecenter
go_to_pokecenter_start ==
  /\ pc = "nav" /\ nav.op = "go_to_pokecenter" /\ nav.pc = "start"
  /\ nav' = IF go_to_pokecenter_branch(nav.map_id) = "walk"
            THEN [ nav EXCEPT !.pc = "walk" ]
            ELSE [ nav EXCEPT !.pc = "done", !.result = "False" ]
  /\ UNCHANGED << progvars, battle, drive >>

\* navigator.press_until_dialog(UP, max_steps=10): one iteration
go_to_pokecenter_walk ==
  /\ pc = "nav" /\ nav.op = "go_to_pokecenter" /\ nav.pc = "walk"
  /\ IF nav.dialog_open \/ nav.ups >= POKECENTER_WALK_STEPS
     THEN nav' = [ nav EXCEPT !.pc = "interact" ]
     ELSE \E dlg \in BOOLEAN :
            nav' = [ nav EXCEPT !.ups = @ + 1, !.dialog_open = dlg ]
  /\ UNCHANGED << progvars, battle, drive >>

\* navigator.press_a_interact() and navigator.mash_a(count=20)
go_to_pokecenter_interact ==
  /\ pc = "nav" /\ nav.op = "go_to_pokecenter" /\ nav.pc = "interact"
  /\ \E dlg \in BOOLEAN :
       nav' = [ nav EXCEPT !.a_presses = @ + 1 + POKECENTER_MASH_A,
                           !.dialog_open = dlg, !.pc = "dialog" ]
  /\ UNCHANGED << progvars, battle, drive >>

\* navigator.mash_through_dialog(max_presses=30): one iteration, and the
\* return True that follows the loop
go_to_pokecenter_dialog ==
  /\ pc = "nav" /\ nav.op = "go_to_pokecenter" /\ nav.pc = "dialog"
  /\ IF ~nav.dialog_open \/ nav.presses >= POKECENTER_DIALOG_PRESSES
     THEN nav' = [ nav EXCEPT !.pc = "done", !.result = "True" ]
     ELSE \E dlg \in BOOLEAN :
            nav' = [ nav EXCEPT !.presses = @ + 1, !.a_presses = @ + 1,
                                !.dialog_open = dlg ]
  /\ UNCHANGED << progvars, battle, drive >>

PokecenterNext ==
  \/ go_to_pokecenter_start
  \/ go_to_pokecenter_walk
  \/ go_to_pokecenter_interact
  \/ go_to_pokecenter_dialog

PokecenterSpec == PokecenterInit /\ [][PokecenterNext]_vars

\* press_until alone; its loop runs on without waiting
PressUntilInit == NavInit /\ nav.op = "press_until"

PressUntilSpec ==
  PressUntilInit /\ [][PressUntilNext]_vars /\ WF_vars(PressUntilNext)

\* ------------------------------------------------------------------------
\* BattleAI (battle.py): one call of get_best_move or get_action. battle
\* holds the emulator memory the call reads (battle flag, the four move ids
\* and PPs, the enemy species, the player's HP and max HP) and what the call
\* returned.
\* Multipliers and scores are floats in the code and integers here:
\* a chart entry is twice the multiplier (0.5 -> 1, 1.0 -> 2, 2.0 -> 4),
\* get_effectiveness is four times the combined multiplier, and a score is
\* forty times the code's score (0.1 -> 4, -1.0 -> -40). The products are
\* exact in both.
\* ------------------------------------------------------------------------

\* TYPE_CHART[attacking][defending], twice the multiplier; absent = 1.0
TYPE_CHART ==
  [ Normal |->
      [ Rock |-> 1, Ghost |-> 0 ],
    Fighting |->
      [ Normal |-> 4, Ice |-> 4, Poison |-> 1, Flying |-> 1, Psychic |-> 1, Bug |-> 1, Rock |-> 4, Ghost |-> 0 ],
    Flying |->
      [ Fighting |-> 4, Bug |-> 4, Grass |-> 4, Electric |-> 1, Rock |-> 1 ],
    Poison |->
      [ Grass |-> 4, Poison |-> 1, Ground |-> 1, Rock |-> 1, Ghost |-> 1 ],
    Ground |->
      [ Fire |-> 4, Electric |-> 4, Poison |-> 4, Rock |-> 4, Grass |-> 1, Bug |-> 1, Flying |-> 0 ],
    Rock |->
      [ Fire |-> 4, Ice |-> 4, Flying |-> 4, Bug |-> 4, Fighting |-> 1, Ground |-> 1 ],
    Bug |->
      [ Psychic |-> 4, Grass |-> 4, Fire |-> 1, Fighting |-> 1, Flying |-> 1, Ghost |-> 1, Poison |-> 1 ],
    Ghost |->
      [ Normal |-> 0, Psychic |-> 0, Ghost |-> 4 ],
    Fire |->
      [ Grass |-> 4, Ice |-> 4, Bug |-> 4, Fire |-> 1, Water |-> 1, Rock |-> 1, Dragon |-> 1 ],
    Water |->
      [ Fire |-> 4, Ground |-> 4, Rock |-> 4, Water |-> 1, Grass |-> 1, Dragon |-> 1 ],
    Grass |->
      [ Water |-> 4, Ground |-> 4, Rock |-> 4, Fire |-> 1, Grass |-> 1, Poison |-> 1, Flying |-> 1, Bug |-> 1, Dragon |-> 1 ],
    Electric |->
      [ Water |-> 4, Flying |-> 4, Electric |-> 1, Grass |-> 1, Ground |-> 0, Dragon |-> 1 ],
    Psychic |->
      [ Fighting |-> 4, Poison |-> 4, Psychic |-> 1, Ghost |-> 0 ],
    Ice |->
      [ Grass |-> 4, Ground |-> 4, Flying |-> 4, Dragon |-> 4, Water |-> 1, Ice |-> 1 ],
    Dragon |->
      [ Dragon |-> 4 ] ]

\* SPECIES_TYPES: internal species index -> (type1, type2)
SPECIES_TYPES ==
  (1 :> << "Ground", "Rock" >>) @@
  (2 :> << "Normal", "None" >>) @@
  (3 :> << "Poison", "None" >>) @@
  (4 :> << "Normal", "None" >>) @@
  (5 :> << "Normal", "Flying" >>) @@
  (6 :> << "Electric", "None" >>) @@
  (7 :> << "Poison", "Ground" >>) @@
  (8 :> << "Water", "Psychic" >>) @@
  (9 :> << "Grass", "Poison" >>) @@
  (10 :> << "Grass", "Psychic" >>) @@
  (11 :> << "Normal", "None" >>) @@
  (12 :> << "Grass", "Psychic" >>) @@
  (13 :> << "Poison", "None" >>) @@
  (14 :> << "Ghost", "Poison" >>) @@
  (15 :> << "Poison", "None" >>) @@
  (16 :> << "Poison", "Ground" >>) @@
  (17 :> << "Ground", "None" >>) @@
  (18 :> << "Ground", "Rock" >>) @@
  (19 :> << "Water", "Ice" >>) @@
  (20 :> << "Fire", "None" >>) @@
  (21 :> << "Psychic", "None" >>) @@
  (22 :> << "Water", "Flying" >>) @@
  (23 :> << "Water", "None" >>) @@
  (24 :> << "Water", "Poison" >>) @@
  (25 :> << "Ghost", "Poison" >>) @@
  (26 :> << "Bug", "Flying" >>) @@
  (27 :> << "Water", "None" >>) @@
  (28 :> << "Water", "None" >>) @@
  (29 :> << "Bug", "None" >>) @@
  (30 :> << "Grass", "None" >>) @@
  (32 :> << "Fire", "None" >>) @@
  (33 :> << "Rock", "Ground" >>) @@
  (34 :> << "Normal", "Flying" >>) @@
  (35 :> << "Normal", "Flying" >>) @@
  (36 :> << "Water", "Psychic" >>) @@
  (37 :> << "Psychic", "None" >>) @@
  (38 :> << "Rock", "Ground" >>) @@
  (39 :> << "Normal", "None" >>) @@
  (40 :> << "Fighting", "None" >>) @@
  (41 :> << "Psychic", "None" >>) @@
  (42 :> << "Fighting", "None" >>) @@
  (43 :> << "Fighting", "None" >>) @@
  (44 :> << "Poison", "None" >>) @@
  (45 :> << "Bug", "Grass" >>) @@
  (46 :> << "Water", "None" >>) @@
  (47 :> << "Psychic", "None" >>) @@
  (48 :> << "Rock", "Ground" >>) @@
  (50 :> << "Fire", "None" >>) @@
  (52 :> << "Electric", "None" >>) @@
  (53 :> << "Electric", "None" >>) @@
  (54 :> << "Poison", "None" >>) @@
  (56 :> << "Fighting", "None" >>) @@
  (57 :> << "Water", "None" >>) @@
  (58 :> << "Ground", "None" >>) @@
  (59 :> << "Normal", "None" >>) @@
  (63 :> << "Normal", "Flying" >>) @@
  (64 :> << "Bug", "Poison" >>) @@
  (65 :> << "Dragon", "Flying" >>) @@
  (69 :> << "Normal", "Flying" >>) @@
  (70 :> << "Water", "None" >>) @@
  (71 :> << "Ice", "Psychic" >>) @@
  (72 :> << "Fire", "Flying" >>) @@
  (73 :> << "Ice", "Flying" >>) @@
  (74 :> << "Electric", "Flying" >>) @@
  (75 :> << "Normal", "None" >>) @@
  (76 :> << "Normal", "None" >>) @@
  (77 :> << "Water", "None" >>) @@
  (81 :> << "Fire", "None" >>) @@
  (82 :> << "Fire", "None" >>) @@
  (83 :> << "Electric", "None" >>) @@
  (84 :> << "Electric", "None" >>) @@
  (87 :> << "Dragon", "None" >>) @@
  (88 :> << "Dragon", "None" >>) @@
  (89 :> << "Rock", "Water" >>) @@
  (90 :> << "Rock", "Water" >>) @@
  (91 :> << "Water", "None" >>) @@
  (92 :> << "Water", "None" >>) @@
  (95 :> << "Ground", "None" >>) @@
  (96 :> << "Ground", "None" >>) @@
  (97 :> << "Rock", "Water" >>) @@
  (98 :> << "Rock", "Water" >>) @@
  (99 :> << "Normal", "None" >>) @@
  (100 :> << "Normal", "None" >>) @@
  (101 :> << "Normal", "None" >>) @@
  (102 :> << "Fire", "None" >>) @@
  (103 :> << "Electric", "None" >>) @@
  (104 :> << "Water", "None" >>) @@
  (105 :> << "Fighting", "None" >>) @@
  (106 :> << "Poison", "Flying" >>) @@
  (107 :> << "Poison", "None" >>) @@
  (108 :> << "Bug", "Grass" >>) @@
  (109 :> << "Water", "None" >>) @@
  (110 :> << "Water", "Fighting" >>) @@
  (111 :> << "Bug", "Poison" >>) @@
  (112 :> << "Bug", "Poison" >>) @@
  (113 :> << "Bug", "Poison" >>) @@
  (115 :> << "Normal", "Flying" >>) @@
  (116 :> << "Fighting", "None" >>) @@
  (117 :> << "Ground", "None" >>) @@
  (118 :> << "Bug", "Poison" >>) @@
  (119 :> << "Water", "Ice" >>) @@
  (122 :> << "Bug", "None" >>) @@
  (123 :> << "Bug", "None" >>) @@
  (124 :> << "Bug", "Flying" >>) @@
  (125 :> << "Fighting", "None" >>) @@
  (127 :> << "Water", "None" >>) @@
  (128 :> << "Psychic", "None" >>) @@
  (129 :> << "Poison", "Flying" >>) @@
  (130 :> << "Psychic", "None" >>) @@
  (131 :> << "Normal", "None" >>) @@
  (132 :> << "Water", "None" >>) @@
  (135 :> << "Poison", "None" >>) @@
  (137 :> << "Water", "None" >>) @@
  (138 :> << "Water", "Ice" >>) @@
  (140 :> << "Electric", "None" >>) @@
  (141 :> << "Normal", "None" >>) @@
  (142 :> << "Poison", "None" >>) @@
  (143 :> << "Normal", "None" >>) @@
  (144 :> << "Ground", "None" >>) @@
  (146 :> << "Ghost", "Poison" >>) @@
  (147 :> << "Psychic", "None" >>) @@
  (148 :> << "Psychic", "None" >>) @@
  (149 :> << "Normal", "Flying" >>) @@
  (150 :> << "Normal", "Flying" >>) @@
  (151 :> << "Water", "Psychic" >>) @@
  (152 :> << "Grass", "Poison" >>) @@
  (153 :> << "Grass", "Poison" >>) @@
  (154 :> << "Water", "Poison" >>) @@
  (156 :> << "Water", "None" >>) @@
  (157 :> << "Water", "None" >>) @@
  (162 :> << "Fire", "None" >>) @@
  (163 :> << "Fire", "None" >>) @@
  (164 :> << "Normal", "None" >>) @@
  (165 :> << "Normal", "None" >>) @@
  (166 :> << "Poison", "None" >>) @@
  (167 :> << "Poison", "None" >>) @@
  (168 :> << "Rock", "Ground" >>) @@
  (169 :> << "Normal", "None" >>) @@
  (170 :> << "Rock", "Flying" >>) @@
  (172 :> << "Electric", "None" >>) @@
  (175 :> << "Fire", "None" >>) @@
  (176 :> << "Water", "None" >>) @@
  (177 :> << "Fire", "None" >>) @@
  (178 :> << "Water", "None" >>) @@
  (179 :> << "Fire", "Flying" >>) @@
  (186 :> << "Grass", "Poison" >>) @@
  (187 :> << "Grass", "Poison" >>) @@
  (188 :> << "Grass", "Poison" >>) @@
  (189 :> << "Grass", "Poison" >>) @@
  (190 :> << "Grass", "Poison" >>) @@
  (191 :> << "Grass", "Poison" >>)

\* MOVE_DATA: move id -> type and power (ids 0x01..0x98)
MOVE_DATA ==
  << [ type |-> "Normal", power |-> 40 ],
     [ type |-> "Fighting", power |-> 50 ],
     [ type |-> "Normal", power |-> 15 ],
     [ type |-> "Normal", power |-> 18 ],
     [ type |-> "Normal", power |-> 80 ],
     [ type |-> "Normal", power |-> 40 ],
     [ type |-> "Fire", power |-> 75 ],
     [ type |-> "Ice", power |-> 75 ],
     [ type |-> "Electric", power |-> 75 ],
     [ type |-> "Normal", power |-> 40 ],
     [ type |-> "Normal", power |-> 55 ],
     [ type |-> "Normal", power |-> 0 ],
     [ type |-> "Normal", power |-> 80 ],
     [ type |-> "Normal", power |-> 0 ],
     [ type |-> "Normal", power |-> 50 ],
     [ type |-> "Normal", power |-> 40 ],
     [ type |-> "Flying", power |-> 35 ],
     [ type |-> "Normal", power |-> 0 ],
     [ type |-> "Flying", power |-> 70 ],
     [ type |-> "Normal", power |-> 15 ],
     [ type |-> "Normal", power |-> 80 ],
     [ type |-> "Grass", power |-> 35 ],
     [ type |-> "Normal", power |-> 65 ],
     [ type |-> "Fighting", power |-> 30 ],
     [ type |-> "Normal", power |-> 120 ],
     [ type |-> "Fighting", power |-> 70 ],
     [ type |-> "Fighting", power |-> 60 ],
     [ type |-> "Normal", power |-> 0 ],
     [ type |-> "Normal", power |-> 70 ],
     [ type |-> "Normal", power |-> 65 ],
     [ type |-> "Normal", power |-> 15 ],
     [ type |-> "Normal", power |-> 0 ],
     [ type |-> "Normal", power |-> 35 ],
     [ type |-> "Normal", power |-> 85 ],
     [ type |-> "Normal", power |-> 15 ],
     [ type |-> "Normal", power |-> 90 ],
     [ type |-> "Normal", power |-> 90 ],
     [ type |-> "Normal", power |-> 100 ],
     [ type |-> "Normal", power |-> 0 ],
     [ type |-> "Poison", power |-> 15 ],
     [ type |-> "Bug", power |-> 25 ],
     [ type |-> "Bug", power |-> 14 ],
     [ type |-> "Normal", power |-> 0 ],
     [ type |-> "Normal", power |-> 60 ],
     [ type |-> "Normal", power |-> 0 ],
     [ type |-> "Normal", power |-> 0 ],
     [ type |-> "Normal", power |-> 0 ],
     [ type |-> "Normal", power |-> 0 ],
     [ type |-> "Normal", power |-> 0 ],
     [ type |-> "Normal", power |-> 0 ],
     [ type |-> "Poison", power |-> 40 ],
     [ type |-> "Fire", power |-> 40 ],
     [ type |-> "Fire", power |-> 95 ],
     [ type |-> "Ice", power |-> 0 ],
     [ type |-> "Water", power |-> 40 ],
     [ type |-> "Water", power |-> 120 ],
     [ type |-> "Water", power |-> 95 ],
     [ type |-> "Ice", power |-> 95 ],
     [ type |-> "Ice", power |-> 120 ],
     [ type |-> "Psychic", power |-> 65 ],
     [ type |-> "Water", power |-> 65 ],
     [ type |-> "Ice", power |-> 65 ],
     [ type |-> "Normal", power |-> 150 ],
     [ type |-> "Flying", power |-> 35 ],
     [ type |-> "Flying", power |-> 80 ],
     [ type |-> "Fighting", power |-> 80 ],
     [ type |-> "Fighting", power |-> 50 ],
     [ type |-> "Fighting", power |-> 0 ],
     [ type |-> "Fighting", power |-> 0 ],
     [ type |-> "Normal", power |-> 80 ],
     [ type |-> "Grass", power |-> 20 ],
     [ type |-> "Grass", power |-> 40 ],
     [ type |-> "Grass", power |-> 0 ],
     [ type |-> "Normal", power |-> 0 ],
     [ type |-> "Grass", power |-> 55 ],
     [ type |-> "Grass", power |-> 120 ],
     [ type |-> "Poison", power |-> 0 ],
     [ type |-> "Grass", power |-> 0 ],
     [ type |-> "Grass", power |-> 0 ],
     [ type |-> "Grass", power |-> 70 ],
     [ type |-> "Bug", power |-> 0 ],
     [ type |-> "Dragon", power |-> 0 ],
     [ type |-> "Fire", power |-> 15 ],
     [ type |-> "Electric", power |-> 40 ],
     [ type |-> "Electric", power |-> 95 ],
     [ type |-> "Electric", power |-> 0 ],
     [ type |-> "Electric", power |-> 120 ],
     [ type |-> "Rock", power |-> 50 ],
     [ type |-> "Ground", power |-> 100 ],
     [ type |-> "Ground", power |-> 0 ],
     [ type |-> "Ground", power |-> 100 ],
     [ type |-> "Poison", power |-> 0 ],
     [ type |-> "Psychic", power |-> 50 ],
     [ type |-> "Psychic", power |-> 90 ],
     [ type |-> "Psychic", power |-> 0 ],
     [ type |-> "Psychic", power |-> 0 ],
     [ type |-> "Psychic", power |-> 0 ],
     [ type |-> "Normal", power |-> 40 ],
     [ type |-> "Normal", power |-> 20 ],
     [ type |-> "Psychic", power |-> 0 ],
     [ type |-> "Ghost", power |-> 0 ],
     [ type |-> "Normal", power |-> 0 ],
     [ type |-> "Normal", power |-> 0 ],
     [ type |-> "Normal", power |-> 0 ],
     [ type |-> "Normal", power |-> 0 ],
     [ type |-> "Normal", power |-> 0 ],
     [ type |-> "Normal", power |-> 0 ],
     [ type |-> "Normal", power |-> 0 ],
     [ type |-> "Ghost", power |-> 0 ],
     [ type |-> "Water", power |-> 0 ],
     [ type |-> "Normal", power |-> 0 ],
     [ type |-> "Psychic", power |-> 0 ],
     [ type |-> "Psychic", power |-> 0 ],
     [ type |-> "Ice", power |-> 0 ],
     [ type |-> "Psychic", power |-> 0 ],
     [ type |-> "Normal", power |-> 0 ],
     [ type |-> "Normal", power |-> 0 ],
     [ type |-> "Normal", power |-> 0 ],
     [ type |-> "Flying", power |-> 0 ],
     [ type |-> "Normal", power |-> 200 ],
     [ type |-> "Normal", power |-> 100 ],
     [ type |-> "Ghost", power |-> 20 ],
     [ type |-> "Poison", power |-> 20 ],
     [ type |-> "Poison", power |-> 65 ],
     [ type |-> "Ground", power |-> 65 ],
     [ type |-> "Fire", power |-> 120 ],
     [ type |-> "Water", power |-> 80 ],
     [ type |-> "Water", power |-> 35 ],
     [ type |-> "Normal", power |-> 60 ],
     [ type |-> "Normal", power |-> 100 ],
     [ type |-> "Normal", power |-> 20 ],
     [ type |-> "Normal", power |-> 10 ],
     [ type |-> "Psychic", power |-> 0 ],
     [ type |-> "Psychic", power |-> 0 ],
     [ type |-> "Normal", power |-> 0 ],
     [ type |-> "Fighting", power |-> 85 ],
     [ type |-> "Normal", power |-> 0 ],
     [ type |-> "Psychic", power |-> 100 ],
     [ type |-> "Poison", power |-> 0 ],
     [ type |-> "Normal", power |-> 250 ],
     [ type |-> "Normal", power |-> 18 ],
     [ type |-> "Ground", power |-> 50 ],
     [ type |-> "Psychic", power |-> 0 ],
     [ type |-> "Rock", power |-> 75 ],
     [ type |-> "Normal", power |-> 80 ],
     [ type |-> "Normal", power |-> 0 ],
     [ type |-> "Normal", power |-> 0 ],
     [ type |-> "Normal", power |-> 80 ],
     [ type |-> "Normal", power |-> 0 ],
     [ type |-> "Normal", power |-> 70 ],
     [ type |-> "Normal", power |-> 0 ],
     [ type |-> "Normal", power |-> 50 ] >>

NUM_SLOTS == 4          \* range(4)
WILD == 1               \* IN_BATTLE reads 1 in a wild battle
TRAINER == 2            \* IN_BATTLE reads 2 in a trainer battle
STATUS_SCORE == 4       \* score = 0.1
BEST_SCORE_INIT == -40  \* best_score = -1.0

ALL_TYPES ==
  { "Normal", "Fighting", "Flying", "Poison", "Ground", "Rock", "Bug",
    "Ghost", "Fire", "Water", "Grass", "Electric", "Psychic", "Ice",
    "Dragon" }

\* the first defender type alone
get_effectiveness_first(attack_type, defender_types) ==
  LET chart ==
        IF attack_type \in DOMAIN TYPE_CHART THEN TYPE_CHART[attack_type]
        ELSE << >>
      factor(def_type) ==
        IF def_type = "None" THEN 2
        ELSE IF def_type \in DOMAIN chart THEN chart[def_type] ELSE 2
  IN  factor(defender_types[1]) * 2

\* chart.get(def_type, 1.0) for each defender type that is not None
get_effectiveness(attack_type, defender_types) ==
  LET chart ==
        IF attack_type \in DOMAIN TYPE_CHART THEN TYPE_CHART[attack_type]
        ELSE << >>
      factor(def_type) ==
        IF def_type = "None" THEN 2
        ELSE IF def_type \in DOMAIN chart THEN chart[def_type] ELSE 2
  IN  factor(defender_types[1]) * factor(defender_types[2])

\* a battle flag that is neither wild nor trainer read as no battle
is_in_battle_known_kind(b) == b.in_battle \in {WILD, TRAINER}

is_in_battle(b) == b.in_battle # 0

is_wild_battle(b) == b.in_battle = WILD

get_enemy_types(b) ==
  IF b.enemy_species \in DOMAIN SPECIES_TYPES
  THEN SPECIES_TYPES[b.enemy_species]
  ELSE << "Normal", "None" >>

\* a score that ignores the enemy's types
move_score_flat(move, enemy_types) ==
  IF move.power = 0 THEN STATUS_SCORE ELSE move.power * 40

\* the score of a move of MOVE_DATA
move_score(move, enemy_types) ==
  IF move.power = 0 THEN STATUS_SCORE
  ELSE move.power * get_effectiveness(move.type, enemy_types) * 10

\* a comparison that lets a later slot with an equal score win
better_or_equal(score, best_score) == score >= best_score

\* `if score > best_score`
better(score, best_score) == score > best_score

\* one iteration of get_best_move's loop (slot is 0-based, as in the code)
scan_slot(b, acc, slot) ==
  LET move_id == b.move_ids[slot + 1]
  IN  IF move_id = 0 \/ b.move_pps[slot + 1] = 0 THEN acc
      ELSE
        LET a1 == IF acc.fallback_slot = -1
                  THEN [ acc EXCEPT !.fallback_slot = slot ] ELSE acc
        IN  IF move_id \notin DOMAIN MOVE_DATA THEN a1
            ELSE
              LET score == move_score(MOVE_DATA[move_id], get_enemy_types(b))
              IN  IF better(score, a1.best_score)
                  THEN [ a1 EXCEPT !.best_score = score, !.best_slot = slot ]
                  ELSE a1

RECURSIVE scan_slots(_, _, _)
scan_slots(b, acc, slot) ==
  IF slot = NUM_SLOTS THEN acc
  ELSE scan_slots(b, scan_slot(b, acc, slot), slot + 1)

get_best_move(b) ==
  LET acc == scan_slots(b, [ best_slot |-> -1, best_score |-> BEST_SCORE_INIT,
                             fallback_slot |-> -1 ], 0)
  IN  IF acc.best_slot # -1 THEN acc.best_slot
      ELSE IF acc.fallback_slot # -1 THEN acc.fallback_slot
      ELSE 0

\* the strong item at a ratio of 0.20 as well
should_use_item_inclusive(b) ==
  IF b.max_hp = 0 THEN "none"
  ELSE IF 5 * b.hp <= b.max_hp THEN "MAX POTION"
  ELSE IF 2 * b.hp < b.max_hp THEN "POTION"
  ELSE "none"

\* ratio = current_hp / max_hp; ratio < 0.20 is 5 * hp < max_hp and
\* ratio < 0.50 is 2 * hp < max_hp for 16-bit hp and max_hp
should_use_item(b) ==
  IF b.max_hp = 0 THEN "none"
  ELSE IF 5 * b.hp < b.max_hp THEN "MAX POTION"
  ELSE IF 2 * b.hp < b.max_hp THEN "POTION"
  ELSE "none"

\* flee without looking at the kind of battle
should_flee_any_battle(b) ==
  \A slot \in 1..NUM_SLOTS :
    ~(b.move_ids[slot] # 0 /\ b.move_pps[slot] > 0)

should_flee(b) ==
  IF ~is_wild_battle(b) THEN FALSE
  ELSE \A slot \in 1..NUM_SLOTS :
         ~(b.move_ids[slot] # 0 /\ b.move_pps[slot] > 0)

get_action(b) ==
  IF ~is_in_battle(b)
  THEN [ action |-> "wait", move |-> -1, item |-> "none" ]
  ELSE IF should_flee(b)
  THEN [ action |-> "flee", move |-> -1, item |-> "none" ]
  ELSE IF should_use_item(b) # "none"
  THEN [ action |-> "item", move |-> -1, item |-> should_use_item(b) ]
  ELSE [ action |-> "fight", move |-> get_best_move(b), item |-> "none" ]

\* the memory a call reads
BattleFlags == {0, WILD, TRAINER, 255}
PPs == {0, MaxPP}
HPs == 0..MaxHP

\* move ids: empty, Tackle (Normal 35), Pin Missile (Bug 14), Growl
\* (status), Thundershock (Electric 40), and 0x99, which MOVE_DATA lacks
MoveSample == {0, 33, 42, 45, 84, 153}

\* enemy species: 0 (not in SPECIES_TYPES), Rhydon (Ground/Rock), Gengar
\* (Ghost/Poison), Gyarados (Water/Flying), Alakazam (Psychic)
SpeciesSample == {0, 1, 14, 22, 148}

BattleCall(op, ids, pps, species, flag, hp, max_hp) ==
  [ op |-> op, pc |-> "call", move_ids |-> ids, move_pps |-> pps,
    enemy_species |-> species, in_battle |-> flag, hp |-> hp,
    max_hp |-> max_hp, action |-> "none", move |-> -1, item |-> "none" ]

\* the calls: get_best_move on any four slots of MoveSample against any
\* species of SpeciesSample, get_action on any battle flag and HP,
\* get_effectiveness on any attacking type (and one the chart lacks) against
\* any one or two defending types
BattleInit ==
  /\ \/ \E ids \in [1..NUM_SLOTS -> MoveSample], pps \in [1..NUM_SLOTS -> PPs],
           sp \in SpeciesSample :
           battle = BattleCall("get_best_move", ids, pps, sp, TRAINER,
                               MaxHP, MaxHP)
     \/ \E ids \in [1..NUM_SLOTS -> {0, 33}], pps \in [1..NUM_SLOTS -> PPs],
           flag \in BattleFlags, hp \in HPs, max_hp \in HPs :
           battle = BattleCall("get_action", ids, pps, 0, flag, hp, max_hp)
     \/ \E a \in ALL_TYPES \cup {"Bird"}, d1 \in ALL_TYPES,
           d2 \in ALL_TYPES \cup {"None"} :
           battle = [ op |-> "get_effectiveness", pc |-> "call",
                      attack_type |-> a, defender_types |-> << d1, d2 >>,
                      multiplier |-> -1 ]
  /\ nav = NavIdle
  /\ drive = DriveIdle
  /\ state = DefaultState
  /\ file = MissingFile
  /\ badges = 0
  /\ in_battle = FALSE /\ needs_heal = FALSE
  /\ stall_history = << >>
  /\ stall_retries = NoRetries
  /\ step = "" /\ invoked = ""
  /\ pc = "battle"
  /\ events = 0

get_best_move_call ==
  /\ pc = "battle" /\ battle.op = "get_best_move" /\ battle.pc = "call"
  /\ battle' = [ battle EXCEPT !.pc = "done", !.move = get_best_move(battle) ]
  /\ UNCHANGED << progvars, nav, drive >>

get_action_call ==
  /\ pc = "battle" /\ battle.op = "get_action" /\ battle.pc = "call"
  /\ LET a == get_action(battle)
     IN  battle' = [ battle EXCEPT !.pc = "done", !.action = a.action,
                                   !.move = a.move, !.item = a.item ]
  /\ UNCHANGED << progvars, nav, drive >>

get_effectiveness_call ==
  /\ pc = "battle" /\ battle.op = "get_effectiveness" /\ battle.pc = "call"
  /\ battle' = [ battle EXCEPT
                  !.pc = "done",
                  !.multiplier = get_effectiveness(battle.attack_type,
                                                   battle.defender_types) ]
  /\ UNCHANGED << progvars, nav, drive >>

BattleNext ==
  get_best_move_call \/ get_action_call \/ get_effectiveness_call

BattleSpec == BattleInit /\ [][BattleNext]_vars

TypeOK ==
  /\ state.step \in Steps
  /\ badges \in 0..(2 ^ BADGE_BITS - 1)
  /\ Len(stall_history) <= STALL_WINDOW
  /\ \A s \in Steps : stall_retries[s] \in 0..STALL_MAX_RETRIES

\* ------------------------------------------------------------------------
\* Claims
\* ------------------------------------------------------------------------

\* the whitelist of the current badge count and the step a call would select
Whitelist == step_ranges(BadgeCount(badges))
Selected == get_current_step(state.step, badges)

\* a write of st was attempted: the file holds st, or the write failed
Saved(st) ==
  \/ file' = RecordFile(st)
  \/ events' = events + 1 /\ file' \in {file, CorruptFile}

\* the entry of a sequence of milestones that is lowest in STEP_ORDER
LowestOf(w) ==
  CHOOSE s \in {w[i] : i \in 1..Len(w)} :
    \A i \in 1..Len(w) : StepIndex(s) <= StepIndex(w[i])

\* C1: in every run in which run_next_step keeps being called, no milestone
\* is the one get_current_step selects at every call from some point on.
C1_NoMilestoneForever ==
  ([]<><<run_next_step>>_vars) =>
    \A m \in Steps \ {"game_complete"} : ~<>[](Selected = m)

\* C2: once step_elite_four has made its two completion calls, the next
\* iteration that reaches the progression branch reads "game_complete" and
\* leaves the loop.
C2_LoopEndsAfterEliteFour ==
  [][ ( /\ run_next_step
        /\ state.step = "game_complete"
        /\ InSeq("game_complete", state.completed_steps)
        /\ BadgeCount(badges) = BADGE_BITS )
      => pc' = "done" ]_vars

\* C3: once the persisted step is "game_complete", get_current_step returns
\* "game_complete" and a run_next_step call invokes no handler and changes
\* neither the state nor the file.
C3_SentinelAbsorbing ==
  [][ state.step = "game_complete" =>
        /\ Selected = "game_complete"
        /\ (run_next_step \/ forced_skip \/ dispatch) =>
             (invoked' = "" /\ state' = state /\ file' = file) ]_vars

\* C4: no run_next_step call (completion or forced skip) and no
\* sync_with_badges call moves the persisted step to an earlier position of
\* STEP_ORDER (the badge byte never loses a bit in this model).
C4_StepNeverDecreases ==
  [][ (sync_progression_state \/ run_next_step \/ forced_skip \/ dispatch)
      => StepIndex(state'.step) >= StepIndex(state.step) ]_vars

\* C5: the step get_current_step selects is never earlier in STEP_ORDER
\* than the persisted step.
C5_SelectionMonotone == StepIndex(Selected) >= StepIndex(state.step)

\* C6 as stated: a persisted step outside the whitelist of the badge count
\* makes get_current_step return the whitelist's lowest milestone.
C6_SnapsToLowest ==
  (pc = "returned" /\ ~InSeq(state.step, Whitelist))
    => step = LowestOf(Whitelist)

\* C6 as amended: a persisted step outside the whitelist makes
\* get_current_step return the first listed milestone of the whitelist: the
\* minimum step sync_with_badges uses for 1..8 badges and "pallet_start" for
\* none. It is the lowest of the whitelist except for 4, 5 and 6 badges,
\* whose whitelists list an earlier milestone after it.
C6_SnapsToFirstListed ==
  (pc = "returned" /\ ~InSeq(state.step, Whitelist)) =>
    LET c == BadgeCount(badges)
    IN  /\ step = Whitelist[1]
        /\ step = (IF c = 0 THEN "pallet_start" ELSE badge_to_step(c))
        /\ (step = LowestOf(Whitelist)) <=> (c \notin {4, 5, 6})

C6_Witness ==
  /\ pc = "returned"
  /\ BadgeCount(badges) = 4
  /\ state.step = "pallet_start"
  /\ step = "pokemon_tower"

\* C7: a persisted step inside the whitelist of the badge count is returned
\* as it is, and the call changes neither the state nor the file.
C7_TrustsWhitelisted ==
  [][ api_get_current_step =>
        /\ InSeq(state.step, Whitelist) => step' = state.step
        /\ state' = state
        /\ file' = file ]_vars

C7_Witness ==
  /\ pc = "returned"
  /\ BadgeCount(badges) = 5
  /\ state.step = "saffron_sabrina"
  /\ step = "saffron_sabrina"

\* C8: sync_with_badges with 1..8 badges and a persisted step before the
\* minimum step of the badge count sets the step to that minimum, records
\* the badges and saves at once; with a step at or past the minimum, or
\* with no badge, it leaves the state and the file as they are.
C8_SyncNeverRollsBack ==
  [][ api_sync_with_badges =>
        LET c == BadgeCount(badges)
            min_step == badge_to_step(c)
        IN  IF c >= 1 /\ StepIndex(state.step) < StepIndex(min_step)
            THEN /\ state'.step = min_step
                 /\ state'.badges = badges
                 /\ state'.completed_steps = state.completed_steps
                 /\ Saved(state')
            ELSE state' = state /\ file' = file ]_vars

C8_Witness ==
  /\ pc = "synced"
  /\ badges = 7
  /\ state = [step |-> "rock_tunnel", badges |-> 7, completed_steps |-> << >>]
  /\ file = RecordFile(state)

C10_ForcedSkip ==
  [][ /\ ( /\ run_next_step
           /\ pc' # "done"
           /\ stall_retries'[step'] >= STALL_MAX_RETRIES ) => pc' = "skip"
      /\ (pc = "skip" /\ pc' # "start") =>
           /\ InSeq(step, state'.completed_steps)
           /\ state'.step = STEP_ORDER[StepIndex(step) + 1]
           /\ state'.badges = badges
           /\ Saved(state')
           /\ stall_history' = << >>
           /\ stall_retries' = [stall_retries EXCEPT ![step] = 0]
           /\ invoked' = ""
           /\ pc' = "tick" ]_vars

C10_Witness ==
  /\ pc = "tick"
  /\ ~in_battle /\ ~needs_heal
  /\ invoked = ""
  /\ stall_history = << >>
  /\ state.step = "elite_four"
  /\ InSeq("viridian_giovanni", state.completed_steps)

\* C11: a run_next_step call whose snapshot differs in step or in map from
\* the snapshot of the call before it leaves the retry counters of both
\* steps at zero: stall events separated by a change do not accumulate.
C11_StallResetOnProgress ==
  [][ ( /\ run_next_step
        /\ pc' # "done"
        /\ stall_history # << >> ) =>
      LET last == stall_history[Len(stall_history)]
          new == stall_history'[Len(stall_history')]
      IN  (last[1] # new[1] \/ last[2] # new[2]) =>
            /\ stall_retries'[last[1]] = 0
            /\ stall_retries'[new[1]] = 0 ]_vars

\* C12: _mark_complete(s) leaves s in completed_steps (and keeps what was
\* there), sets the step to the successor of s in STEP_ORDER, or leaves it
\* for the sentinel, records the current badge byte and writes the whole
\* state to the file.
C12_MarkComplete ==
  [][ file_mark_complete =>
        LET s == step'
        IN  /\ InSeq(s, state'.completed_steps)
            /\ \A t \in Steps : InSeq(t, state.completed_steps)
                                  => InSeq(t, state'.completed_steps)
            /\ IF s # "game_complete"
               THEN state'.step = STEP_ORDER[StepIndex(s) + 1]
               ELSE state'.step = state.step
            /\ state'.badges = badges
            /\ Saved(state') ]_vars

C12_Witness ==
  /\ pc = "marked"
  /\ step = "pewter_brock"
  /\ state = [ step |-> "mt_moon", badges |-> 2 ^ 7 - 1,
               completed_steps |-> << "pallet_start", "pewter_brock" >> ]
  /\ file = RecordFile(state)

\* C13: when the process stops inside a completion call and is started
\* again, load_state returns the state before the completion or the state
\* after it.
C13_CrashSafe ==
  [][ file_crash =>
        state' \in {state, mark_complete(state, step', badges)} ]_vars

C15_LoadNeverRefuses ==
  [][ file_load =>
        /\ pc' = "loaded"
        /\ IF file.kind = "record"
           THEN \A k \in StateKeys :
                  state'[k] = IF k \in DOMAIN file.data
                              THEN (IF k = "badges"
                                    THEN json_load_int(file.data[k])
                                    ELSE file.data[k])
                              ELSE DefaultState[k]
           ELSE state' = DefaultState ]_vars

\* C16: a completion whose write fails still returns to the loop with the
\* step completed and advanced in memory, and the next run_next_step call
\* selects from the in-memory step.
C16_WriteFailureNotFatal ==
  [][ /\ ( \/ forced_skip /\ events' # events
           \/ dispatch /\ file' # file /\ file' = CorruptFile ) =>
             /\ InSeq(step, state'.completed_steps)
             /\ StepIndex(state'.step) > StepIndex(step)
             /\ pc' = "tick"
      /\ (run_next_step /\ pc' # "done") =>
             step' = get_current_step(state.step, badges) ]_vars

C16_Witness ==
  /\ pc = "dispatch"
  /\ events = 1
  /\ file # RecordFile(state)
  /\ state.completed_steps = << "pallet_start" >>
  /\ step = "route1_to_viridian"
  /\ load_state(file).step = "pallet_start"

C18_BlockedFails ==
  /\ <>(nav.pc = "done")
  /\ [](( /\ nav.pc = "done"
          /\ (nav.ex # nav.target_x \/ nav.ey # nav.target_y) ) =>
        LET k == IF nav.max_steps < 5 THEN nav.max_steps ELSE 5
        IN  /\ nav.result = "False"
            /\ nav.iters <= k
            /\ ~nav.in_battle =>
                 /\ nav.iters = k
                 /\ nav.presses =
                      2 * k + (IF nav.max_steps >= 5 THEN 6 ELSE 0))

C18_Witness ==
  /\ nav.op = "navigate_to"
  /\ nav.world = "blocked"
  /\ nav.pc = "done"
  /\ nav.result = "False"
  /\ ~nav.in_battle
  /\ nav.max_steps >= 5
  /\ nav.iters = 5
  /\ nav.e = 5
  /\ nav.presses = 16

\* C19: once the map differs from the one navigate_to started on,
\* navigate_to issues no further input and does not return success.
C19_MapChangeInvalidatesTarget ==
  [][ (nav.op = "navigate_to" /\ nav.map_id # nav.start_map) =>
        (nav'.presses = nav.presses /\ nav'.result # "True") ]_vars

\* C20: every directional input of press_until, navigate_to and
\* exit_building comes right after a refresh with an in_battle check, and
\* none is issued once the snapshot has shown a battle.
C20_BattleCheckedBeforeEveryStep ==
  [][ nav'.presses # nav.presses => (nav.checked /\ ~nav.in_battle) ]_vars

\* C21: a return of press_until or navigate_to on a battle seen at the loop
\* head is made at once, without input, and its value differs from "False",
\* the value returned when the budget is exhausted.
C21_BattleYieldDistinct ==
  [][ ( /\ navigate_to_top \/ press_until_top
        /\ nav.i < nav.max_steps
        /\ nav'.pc = "done"
        /\ nav'.in_battle
        /\ nav'.result # "True" ) =>
      (nav'.presses = nav.presses /\ nav'.result # "False") ]_vars

\* C22: press_until returns in every behaviour, it never issues more than
\* max_steps directional steps, and it returns True only from a loop head
\* whose refreshed snapshot satisfies the condition.
C22_PressUntilTerminates ==
  /\ <>(nav.pc = "done")
  /\ [](nav.presses <= nav.max_steps)
  /\ [][ nav'.result = "True" =>
           (press_until_top /\ condition_fn(update(nav))
              /\ nav'.presses = nav.presses) ]_vars

C22_Witness ==
  /\ nav.op = "press_until"
  /\ nav.pc = "done"
  /\ nav.result = "True"
  /\ nav.presses >= 1
  /\ nav.max_steps >= 2

\* C23: when press_until returns False after at least one step and the
\* snapshot shows no battle, the condition is false in the snapshot left by
\* its last step.
C23_ExhaustedMeansConditionFalse ==
  [][ ( /\ press_until_top
        /\ nav.presses >= 1
        /\ nav'.result = "False"
        /\ ~nav'.in_battle ) => ~condition_fn(nav') ]_vars

\* C24: mash_through_dialog returns the number of A presses it issued, at
\* most max_presses; each press comes right after a refresh that shows the
\* dialog open, and a refresh that shows it closed ends the call, so a
\* dialog closed at the start gets no press.
C24_MashThroughDialog ==
  [][ /\ mash_through_dialog_press => (nav.checked /\ nav.dialog_open)
      /\ (mash_through_dialog_top /\ nav.i < nav.max_steps /\ ~nav.edialog)
           => nav'.pc = "done"
      /\ (nav.op = "mash_through_dialog" /\ nav'.pc = "done") =>
           /\ nav'.result = "int"
           /\ nav'.returned = nav'.confirms
           /\ nav'.returned <= nav.max_steps
           /\ nav'.confirms = nav.confirms ]_vars

C24_Witness ==
  /\ nav.op = "mash_through_dialog"
  /\ nav.pc = "done"
  /\ nav.returned = 1
  /\ nav.confirms = 1
  /\ ~nav.dialog_open
  /\ nav.max_steps >= 2

\* the slots (0-based) a call can use: non-empty with PP left
Usable(b) ==
  { slot \in 0..3 : b.move_ids[slot + 1] # 0 /\ b.move_pps[slot + 1] # 0 }

\* the usable slots whose move MOVE_DATA knows, and their scores
Scored(b) == { slot \in Usable(b) : b.move_ids[slot + 1] \in DOMAIN MOVE_DATA }

SlotMove(b, slot) == MOVE_DATA[b.move_ids[slot + 1]]

SlotEff(b, slot) == get_effectiveness(SlotMove(b, slot).type, get_enemy_types(b))

SlotScore(b, slot) ==
  IF SlotMove(b, slot).power = 0 THEN STATUS_SCORE
  ELSE SlotMove(b, slot).power * SlotEff(b, slot) * 10

\* the usable damaging slots with non-zero effectiveness
Effective(b) ==
  { slot \in Scored(b) : SlotMove(b, slot).power # 0 /\ SlotEff(b, slot) # 0 }

ActionDone == battle.op = "get_action" /\ battle.pc = "done"

BestMoveDone == battle.op = "get_best_move" /\ battle.pc = "done"

\* C25: in a wild battle with every slot empty or out of PP get_action
\* returns flee whatever the HP; in a trainer battle it never returns flee.
C25_FleeRule ==
  ActionDone =>
    /\ (battle.in_battle = WILD /\ Usable(battle) = {}) =>
         battle.action = "flee"
    /\ battle.in_battle = TRAINER => battle.action # "flee"

C25_Witness ==
  /\ ActionDone
  /\ battle.in_battle = WILD
  /\ battle.move_ids[1] # 0 /\ battle.move_pps[1] = 0
  /\ Usable(battle) = {}
  /\ battle.max_hp # 0 /\ 5 * battle.hp < battle.max_hp
  /\ battle.action = "flee"

\* C26: in battle, when the flee rule does not apply and max HP is not
\* zero, get_action returns MAX POTION exactly when hp/max_hp < 0.20,
\* POTION exactly when 0.20 <= hp/max_hp < 0.50, and fight exactly when
\* hp/max_hp >= 0.50.
C26_HealingThresholds ==
  ( /\ ActionDone
    /\ battle.in_battle # 0
    /\ ~(battle.in_battle = WILD /\ Usable(battle) = {})
    /\ battle.max_hp # 0 ) =>
    /\ (battle.action = "item" /\ battle.item = "MAX POTION")
         <=> 5 * battle.hp < battle.max_hp
    /\ (battle.action = "item" /\ battle.item = "POTION")
         <=> (5 * battle.hp >= battle.max_hp /\ 2 * battle.hp < battle.max_hp)
    /\ battle.action = "fight" <=> 2 * battle.hp >= battle.max_hp

C26_Witness ==
  /\ ActionDone
  /\ battle.in_battle = TRAINER
  /\ battle.hp > 0 /\ 5 * battle.hp = battle.max_hp
  /\ battle.action = "item" /\ battle.item = "POTION"

\* C27: get_action returns one of fight (with a slot in 0..3), item, flee
\* and wait, and wait exactly when the battle flag is zero.
C27_OneAction ==
  ActionDone =>
    /\ battle.action \in {"fight", "item", "flee", "wait"}
    /\ battle.action = "fight" <=> battle.move \in 0..3
    /\ battle.action = "item" <=> battle.item \in {"POTION", "MAX POTION"}
    /\ battle.action # "fight" => battle.move = -1
    /\ battle.action # "item" => battle.item = "none"
    /\ battle.action = "wait" <=> battle.in_battle = 0

C27_Witness ==
  /\ ActionDone
  /\ battle.in_battle = 255
  /\ Usable(battle) = {}
  /\ battle.max_hp = 0
  /\ battle.action = "fight" /\ battle.move = 0

\* C28: when exactly one usable slot holds a damaging move with non-zero
\* effectiveness and every other usable slot holds a status move or a
\* damaging move with zero effectiveness, get_best_move returns that slot.
C28_OnlyEffectiveMoveWins ==
  ( /\ BestMoveDone
    /\ Cardinality(Effective(battle)) = 1
    /\ Usable(battle) = Scored(battle) ) =>
    battle.move \in Effective(battle)

\* Pin Missile at a quarter (14 * 0.25) in the last slot, after Tackle with
\* no effect and Growl
C28_Witness ==
  /\ BestMoveDone
  /\ battle.enemy_species = 14
  /\ battle.move_ids = << 33, 45, 33, 42 >>
  /\ Usable(battle) = 0..3
  /\ Effective(battle) = {3}
  /\ SlotEff(battle, 3) = 1
  /\ battle.move = 3

\* C29: get_best_move returns the usable slot with the highest score
\* (status move 0.1, damaging move power times effectiveness), and the
\* lowest such slot when several share the highest score.
C29_HighestScoreLowestSlot ==
  (BestMoveDone /\ Scored(battle) # {}) =>
    /\ battle.move \in Scored(battle)
    /\ \A slot \in Scored(battle) :
         /\ SlotScore(battle, slot) <= SlotScore(battle, battle.move)
         /\ SlotScore(battle, slot) = SlotScore(battle, battle.move)
              => battle.move <= slot

C29_Witness ==
  /\ BestMoveDone
  /\ Scored(battle) = 0..3
  /\ battle.move = 1
  /\ SlotScore(battle, 0) < SlotScore(battle, 1)
  /\ SlotScore(battle, 2) < SlotScore(battle, 1)
  /\ SlotScore(battle, 3) = SlotScore(battle, 1)

\* C30: when no usable slot scores more than 0, get_best_move returns the
\* first usable slot; when no slot is usable it returns slot 0.
C30_Fallback ==
  BestMoveDone =>
    /\ ( /\ Usable(battle) # {}
         /\ \A slot \in Scored(battle) : SlotScore(battle, slot) <= 0 ) =>
         \A slot \in Usable(battle) : battle.move <= slot
    /\ Usable(battle) = {} => battle.move = 0

\* the chart entry of an attacking and a defending type, twice the
\* multiplier; a missing entry and an absent type count as 1.0
ChartEntry(a, d) ==
  IF d = "None" THEN 2
  ELSE IF a \in DOMAIN TYPE_CHART /\ d \in DOMAIN TYPE_CHART[a]
  THEN TYPE_CHART[a][d]
  ELSE 2

EffDone == battle.op = "get_effectiveness" /\ battle.pc = "done"

\* C31: get_effectiveness(a, (d1, d2)) is chart(a, d1) times chart(a, d2)
\* with missing entries and an absent d2 as 1.0; it is one of 0, 0.25, 0.5,
\* 1, 2, 4, and 0 whenever a factor is 0; Water vs Rock/Ground is 4 and
\* Ground vs Water/Flying is 0.
C31_EffectivenessIsChartProduct ==
  EffDone =>
       LET a == battle.attack_type
           d1 == battle.defender_types[1]
           d2 == battle.defender_types[2]
       IN  /\ battle.multiplier = ChartEntry(a, d1) * ChartEntry(a, d2)
           /\ battle.multiplier \in {0, 1, 2, 4, 8, 16}
           /\ (ChartEntry(a, d1) = 0 \/ ChartEntry(a, d2) = 0)
                => battle.multiplier = 0
           /\ (a = "Water" /\ d1 = "Rock" /\ d2 = "Ground")
                => battle.multiplier = 16
           /\ (a = "Ground" /\ d1 = "Water" /\ d2 = "Flying")
                => battle.multiplier = 0

C31_Witness ==
  /\ EffDone
  /\ battle.attack_type = "Ground"
  /\ battle.defender_types = << "Water", "Flying" >>
  /\ battle.multiplier = 0

\* the delta on the axis that is not the primary direction's, and the
\* direction that reduces it
SecondaryDelta(n) ==
  IF n.primary \in {"left", "right"} THEN n.target_y - n.y
  ELSE n.target_x - n.x

SecondaryToward(n) ==
  IF n.primary \in {"left", "right"}
  THEN (IF n.target_y > n.y THEN "down" ELSE "up")
  ELSE (IF n.target_x > n.x THEN "right" ELSE "left")

\* C36: navigate_to issues a second step in an iteration only when the
\* primary step was blocked and the delta on the secondary axis is not zero,
\* and then along the secondary axis toward the target.
C36_SecondStepNeedsSecondaryDelta ==
  [][ navigate_to_secondary =>
        /\ SecondaryDelta(nav) # 0
        /\ nav.secondary = SecondaryToward(nav) ]_vars

\* C37: navigate_to's stuck counter goes up only in an iteration in which
\* neither step moved the character, and an iteration in which the
\* character moved leaves it at 0.
C37_StuckCountsUnmovedIterations ==
  [][ /\ ( /\ nav.op = "navigate_to"
           /\ nav'.stuck_count > nav.stuck_count ) =>
           (navigate_to_secondary /\ ~moved(nav, nav'))
      /\ ( /\ navigate_to_primary \/ navigate_to_secondary
           /\ moved(nav, nav') ) => nav'.stuck_count = 0 ]_vars

\* C38: the escape starts when the stuck counter reaches 5; it makes at most
\* 3 steps in each of the two directions perpendicular to the iteration's
\* primary direction, first one side and then the other; the first step
\* that moves the character ends it with the counter at 0 and navigation
\* going on; when all 6 steps are blocked navigate_to returns False.
C38_EscapePolicy ==
  [][ /\ ( /\ nav.op = "navigate_to"
           /\ nav.pc # "escape" /\ nav'.pc = "escape" ) =>
           /\ nav'.stuck_count = MAX_STUCK_TRIES
           /\ nav'.e = 0
      /\ escape_stuck =>
           LET perp == perpendiculars(nav.primary)
                         [IF nav.e < ESCAPE_STEPS THEN 1 ELSE 2]
           IN  /\ nav.e < 2 * ESCAPE_STEPS
               /\ nav'.presses = nav.presses + 1
               /\ perp \notin {nav.primary}
               /\ (perp \in {"up", "down"}) # (nav.primary \in {"up", "down"})
               /\ moved(nav, nav') =>
                    /\ nav'.x = step_x(nav.x, perp)
                    /\ nav'.y = step_y(nav.y, perp)
                    /\ nav'.stuck_count = 0
                    /\ nav'.pc = "top"
               /\ ~moved(nav, nav') =>
                    IF nav.e = 2 * ESCAPE_STEPS - 1
                    THEN nav'.pc = "done" /\ nav'.result = "False"
                    ELSE nav'.pc = "escape" /\ nav'.e = nav.e + 1 ]_vars

\* the fourth escape step, the first on the second side, moved the character
C38_Witness ==
  /\ nav.op = "navigate_to"
  /\ nav.pc = "top"
  /\ nav.e = ESCAPE_STEPS
  /\ nav.iters = MAX_STUCK_TRIES
  /\ nav.presses = 2 * MAX_STUCK_TRIES + ESCAPE_STEPS + 1
  /\ nav.stuck_count = 0
  /\ (nav.x # nav.last_x \/ nav.y # nav.last_y)

\* C39: along a bottom wall where lateral moves are not blocked,
\* exit_building finds an exit below any column within 10 tiles to the left
\* or to the right of the column where the sweep starts, and returns True.
C39_SweepCoversBothSides ==
  ( /\ nav.op = "exit_building"
    /\ nav.world = "bottom_wall"
    /\ nav.pc = "done"
    /\ Abs(nav.exit_x - SWEEP_STEPS) <= SWEEP_STEPS ) =>
    (nav.result = "True" /\ nav.map_id # nav.start_map)

\* C33: a run_next_step call that selects a milestone other than
\* game_complete and makes no forced skip invokes exactly one handler, the
\* one of that milestone.
C33_DispatchTotalAndExact ==
  [][ drive_run_next_step =>
        LET s == get_current_step(state.step, badges)
        IN  (s \in Steps \ {"game_complete"} /\ drive'.last # "skip") =>
              /\ drive'.last = "dispatch"
              /\ Len(drive'.handlers) = 1
              /\ handler_milestone[drive'.handlers[1]] = s
              /\ drive'.handled = (IF stall_history = << >> THEN 0
                                   ELSE drive.handled) + 1 ]_vars

C33_Witness ==
  /\ drive.op = "run_next_step"
  /\ drive.last = "dispatch"
  /\ step = "elite_four"
  /\ drive.handlers = << "step_elite_four" >>
  /\ invoked = "elite_four"

\* C40: from an empty window and a zero retry counter, with the same step
\* and map on every call, the first increment of the counter is on the 3rd
\* run_next_step call, one more on each later call, and the forced skip is
\* on exactly the 7th call, the handler having run on the 6 calls before.
C40_ForcedSkipOnSeventhCall ==
  [][ ( /\ drive_run_next_step
        /\ drive'.steady /\ drive'.fresh ) =>
        LET n == drive'.calls
        IN  /\ drive'.last = "skip" <=> n = 7
            /\ drive'.last = "skip" => drive'.handled = 6
            /\ n < 7 =>
                 /\ drive'.last = "dispatch"
                 /\ drive'.handled = n
                 /\ stall_retries'[step'] = (IF n < 3 THEN 0 ELSE n - 2) ]_vars

C40_Witness ==
  /\ drive.op = "run_next_step"
  /\ drive.steady /\ drive.fresh
  /\ drive.calls = 7
  /\ drive.handled = 6
  /\ drive.last = "skip"
  /\ stall_history = << >>
  /\ InSeq(step, state.completed_steps)

\* C34: a go_to_pokecenter call made on a city map that has a Pokecenter
\* returns True, having interacted with the counter.
C34_CityCallHeals ==
  ( /\ nav.op = "go_to_pokecenter" /\ nav.pc = "done"
    /\ nav.map_id \in DOMAIN CITY_TO_POKECENTER ) =>
      nav.result = "True" /\ nav.a_presses >= 1

\* C35: from every iteration that is out of battle, needs_heal true
\* included, a progression step (run_next_step) is eventually executed,
\* unless a battle starts first.
C35_ProgressWheneverOutOfBattle ==
  [](( pc = "branch" /\ ~in_battle /\ needs_heal ) =>
       <>( pc \in {"dispatch", "skip", "done"} \/ in_battle ))

\* how many of the three branches of the loop body a step takes
BranchesTaken ==
    (IF BattleTurn THEN 1 ELSE 0)
  + (IF HealAttempt THEN 1 ELSE 0)
  + (IF run_next_step THEN 1 ELSE 0)

\* the priority of the branches, and run_next_step only out of battle with
\* no heal needed
BranchPriority ==
  /\ (pc = "branch" /\ pc' \in {"tick", "dispatch", "skip", "done"}) =>
       /\ BranchesTaken = 1
       /\ in_battle => BattleTurn
       /\ (~in_battle /\ needs_heal) => HealAttempt
       /\ (~in_battle /\ ~needs_heal) => run_next_step
  /\ pc' \in {"dispatch", "skip", "done"} /\ pc' # pc =>
       pc = "branch" /\ ~in_battle /\ ~needs_heal

====
